---- MODULE Spec2Model ----
(***************************************************************************)
(* Model of the financial statement engine of the project-report front     *)
(* end: calculateTax and calculateAll (services/financialCalculations).    *)
(*                                                                         *)
(* Money is held in integer units of 1/Den of a currency unit, so that the *)
(* percentage arithmetic of the engine (22%, 10%, 4%, ...) is exact: the   *)
(* inputs are whole currency units and every product the code forms has at *)
(* most five decimals.  Strings are TLA+ strings and the string functions  *)
(* of the code (toLowerCase, includes, startsWith, replace) are computed   *)
(* character by character.                                                 *)
(***************************************************************************)
EXTENDS Integers, Sequences, FiniteSets, TLC

(***************************************************************************)
(* Bounds of the model.                                                    *)
(***************************************************************************)
NumYears == 2
MaxYears == 3
MaxItems == 2
MaxPbtK == 16

(***************************************************************************)
(* Evaluation.  Only({e : v \in {d}}) is e with the value of d named v: d  *)
(* is computed once, however often e reads it.                             *)
(***************************************************************************)
Only(S) == CHOOSE v \in S : TRUE

(***************************************************************************)
(* Strings.                                                                *)
(***************************************************************************)
UpperChars == "ABCDEFGHIJKLMNOPQRSTUVWXYZ"
LowerChars == "abcdefghijklmnopqrstuvwxyz"
DigitChars == "0123456789"

CharAt(s, i) == SubSeq(s, i, i)

\* the position of the character c in the alphabet (0: none)
IndexIn(alphabet, c) ==
    IF \E i \in 1..Len(alphabet) : CharAt(alphabet, i) = c
    THEN CHOOSE i \in 1..Len(alphabet) : CharAt(alphabet, i) = c
    ELSE 0

UpperToLower ==
    [c \in {CharAt(UpperChars, i) : i \in 1..Len(UpperChars)} |->
        CharAt(LowerChars, IndexIn(UpperChars, c))]
LowerOrDigit ==
    {CharAt(LowerChars, i) : i \in 1..Len(LowerChars)}
    \cup {CharAt(DigitChars, i) : i \in 1..Len(DigitChars)}

LowerChar(c) == IF c \in DOMAIN UpperToLower THEN UpperToLower[c] ELSE c

RECURSIVE LowerFrom(_, _)
LowerFrom(s, i) ==
    IF i > Len(s) THEN ""
    ELSE Only({LowerChar(CharAt(s, i)) \o LowerFrom(s, j) : j \in {i + 1}})

\* s.includes(t)
Includes(s, t) ==
    \E a \in {s} : \E i \in 0..(Len(a) - Len(t)) : SubSeq(a, i + 1, i + Len(t)) = t

\* s.startsWith(t)
StartsWith(s, t) == \E a \in {s} : Len(t) <= Len(a) /\ SubSeq(a, 1, Len(t)) = t

IsAlnumLower(c) == c \in LowerOrDigit

RECURSIVE StripFrom(_, _)
StripFrom(s, i) ==
    IF i > Len(s) THEN ""
    ELSE Only({(IF IsAlnumLower(CharAt(s, i)) THEN CharAt(s, i) ELSE "") \o StripFrom(s, j) :
               j \in {i + 1}})

\* s.replace(/[^a-z0-9]/g, '')
StripNonAlnum(s) == Only({StripFrom(a, 1) : a \in {s}})

RECURSIVE UnderscoreFrom(_, _)
UnderscoreFrom(s, i) ==
    IF i > Len(s) THEN ""
    ELSE Only({(IF CharAt(s, i) # " " THEN CharAt(s, i)
                ELSE IF i > 1 /\ CharAt(s, i - 1) = " " THEN ""
                ELSE "_") \o UnderscoreFrom(s, j) : j \in {i + 1}})

\* s.replace(/\s+/g, '_')
SpacesToUnderscore(s) == Only({UnderscoreFrom(a, 1) : a \in {s}})

\* s.trim(), on blanks
TrimLeft(s) ==
    \* the suffix from the first character that is no blank
    Only({IF \A i \in 1..Len(a) : CharAt(a, i) = " " THEN ""
          ELSE SubSeq(a, CHOOSE i \in 1..Len(a) :
                             CharAt(a, i) # " " /\ \A j \in 1..(i - 1) : CharAt(a, j) = " ",
                      Len(a)) : a \in {s}})
TrimRight(s) ==
    Only({IF \A i \in 1..Len(a) : CharAt(a, i) = " " THEN ""
          ELSE SubSeq(a, 1, CHOOSE i \in 1..Len(a) :
                                CharAt(a, i) # " "
                                /\ \A j \in (i + 1)..Len(a) : CharAt(a, j) = " ") : a \in {s}})
Trim(s) == TrimRight(TrimLeft(s))

(***************************************************************************)
(* Fixed-point numbers [w, f] = w + f/Den, 0 <= f < Den, used where the    *)
(* whole part exceeds what fits next to five decimals in one integer.      *)
(***************************************************************************)
Den == 10 * 10 * 10 * 10 * 10

FxInt(n) == [w |-> n, f |-> 0]
FxZero == FxInt(0)
FxAdd(a, b) == [w |-> a.w + b.w + ((a.f + b.f) \div Den), f |-> (a.f + b.f) % Den]
FxSub(a, b) == [w |-> a.w - b.w + ((a.f - b.f) \div Den), f |-> (a.f - b.f) % Den]
FxLe(a, b) == a.w < b.w \/ (a.w = b.w /\ a.f <= b.f)
FxGt(a, b) == ~FxLe(a, b)
FxMin(a, b) == IF FxLe(a, b) THEN a ELSE b
\* a * n for a small natural n
FxTimes(a, n) == [w |-> a.w * n + ((a.f * n) \div Den), f |-> (a.f * n) % Den]
\* a * (p / 100): the product of the code with the literal 0.pp
FxPct(a, p) ==
    LET wp  == a.w * p
        num == ((wp % 100) * Den + a.f * p) \div 100
    IN  [w |-> (wp \div 100) + (num \div Den), f |-> num % Den]
\* units of 1/Den <-> fixed point
ToFx(u) == [w |-> u \div Den, f |-> u % Den]
FromFx(a) == a.w * Den + a.f

(***************************************************************************)
(* calculateTax(pbt, regime)                                               *)
(***************************************************************************)
RebateLimit == 700000
SurchargeThreshold == 10000000

TaxRecord(tax, surcharge, cess) ==
    [tax |-> tax, surcharge |-> surcharge, cess |-> cess,
     total |-> FxAdd(FxAdd(tax, surcharge), cess)]

ZeroTax == [tax |-> FxZero, surcharge |-> FxZero, cess |-> FxZero, total |-> FxZero]

\* one slab of the progressive schedule: (min(taxable, hi) - lo) * rate when taxable > lo
Slab(taxable, lo, hi, rate) ==
    IF FxGt(taxable, FxInt(lo))
    THEN FxPct(FxSub(FxMin(taxable, FxInt(hi)), FxInt(lo)), rate)
    ELSE FxZero

\* the last slab has no upper limit
TopSlab(taxable, lo, rate) ==
    IF FxGt(taxable, FxInt(lo)) THEN FxPct(FxSub(taxable, FxInt(lo)), rate) ELSE FxZero

ProprietorshipTax(pbt) ==
    LET slabs == FxAdd(Slab(pbt, 300000, 700000, 5),
                 FxAdd(Slab(pbt, 700000, 1000000, 10),
                 FxAdd(Slab(pbt, 1000000, 1200000, 15),
                 FxAdd(Slab(pbt, 1200000, 1500000, 20),
                       TopSlab(pbt, 1500000, 30)))))
    IN  IF FxLe(pbt, FxInt(RebateLimit)) THEN FxZero ELSE slabs

\* calculateTax without the early return for pbt <= 0
CalculateTax_NoGuard(pbt, regime) ==
    IF regime = "domestic_22"
    THEN LET tax == FxPct(pbt, 22)
             surcharge == FxPct(tax, 10)
         IN  TaxRecord(tax, surcharge, FxPct(FxAdd(tax, surcharge), 4))
    ELSE IF regime = "llp"
    THEN LET tax == FxPct(pbt, 30)
             surcharge == IF FxGt(pbt, FxInt(SurchargeThreshold)) THEN FxPct(tax, 12) ELSE FxZero
         IN  TaxRecord(tax, surcharge, FxPct(FxAdd(tax, surcharge), 4))
    ELSE IF regime = "proprietorship"
    THEN TaxRecord(ProprietorshipTax(pbt), FxZero, FxZero)
    ELSE ZeroTax

\* calculateTax with the rebate test written pbt < 700000
CalculateTax_StrictRebate(pbt, regime) ==
    IF FxLe(pbt, FxZero) THEN ZeroTax
    ELSE IF regime = "proprietorship" /\ pbt = FxInt(RebateLimit)
    THEN TaxRecord(Slab(pbt, 300000, 700000, 5), FxZero, FxZero)
    ELSE CalculateTax_NoGuard(pbt, regime)

\* calculateTax with the cess charged on the tax alone, not on tax + surcharge
CalculateTax_CessOnTax(pbt, regime) ==
    IF FxLe(pbt, FxZero) THEN ZeroTax
    ELSE IF regime = "domestic_22"
    THEN LET tax == FxPct(pbt, 22)
         IN  TaxRecord(tax, FxPct(tax, 10), FxPct(tax, 4))
    ELSE CalculateTax_NoGuard(pbt, regime)

\* calculateTax with the surcharge test of the llp branch written pbt >= 10000000
CalculateTax_SurchargeAtThreshold(pbt, regime) ==
    IF FxLe(pbt, FxZero) THEN ZeroTax
    ELSE IF regime = "llp"
    THEN LET tax == FxPct(pbt, 30)
             surcharge == IF FxLe(FxInt(SurchargeThreshold), pbt) THEN FxPct(tax, 12) ELSE FxZero
         IN  TaxRecord(tax, surcharge, FxPct(FxAdd(tax, surcharge), 4))
    ELSE CalculateTax_NoGuard(pbt, regime)

CalculateTax(pbt, regime) ==
    IF FxLe(pbt, FxZero) THEN ZeroTax
    ELSE IF regime = "domestic_22"
    THEN LET tax == FxPct(pbt, 22)
             surcharge == FxPct(tax, 10)
         IN  TaxRecord(tax, surcharge, FxPct(FxAdd(tax, surcharge), 4))
    ELSE IF regime = "llp"
    THEN LET tax == FxPct(pbt, 30)
             surcharge == IF FxGt(pbt, FxInt(SurchargeThreshold)) THEN FxPct(tax, 12) ELSE FxZero
         IN  TaxRecord(tax, surcharge, FxPct(FxAdd(tax, surcharge), 4))
    ELSE IF regime = "proprietorship"
    THEN TaxRecord(ProprietorshipTax(pbt), FxZero, FxZero)
    ELSE ZeroTax

(***************************************************************************)
(* Small helpers.                                                          *)
(***************************************************************************)
Min(S) == Only({(CHOOSE x \in T : \A y \in T : x <= y) : T \in {S}})
FirstIn(S) == Only({(IF T = {} THEN 0 ELSE Min(T)) : T \in {S}})
Abs(x) == IF x < 0 THEN -x ELSE x

RECURSIVE SumFrom(_, _)
SumFrom(s, i) ==
    IF i > Len(s) THEN 0 ELSE Only({s[i] + SumFrom(s, j) : j \in {i + 1}})
\* the sum of a sequence of numbers
SeqSum(s) == Only({SumFrom(a, 1) : a \in {s}})

RECURSIVE GCD(_, _)
GCD(a, b) ==
    IF b = 0 THEN Abs(a)
    ELSE Only({GCD(x, y) : <<x, y>> \in {<<b, a % Abs(b)>>}})

\* a || b on numbers (0 and undefined are falsy; undefined is passed as 0)
OrElse(a, b) == Only({(IF x # 0 THEN x ELSE b) : x \in {a}})

\* whole currency units -> money units
Rs(n) == n * Den
\* the tolerance 0.01 of the code, in money units
Tolerance == Den \div 100

(***************************************************************************)
(* Result maps: JavaScript objects keyed by label.  A key outside the      *)
(* domain is undefined.                                                    *)
(***************************************************************************)
EmptyMap == <<>>
Has(m, k) == k \in DOMAIN m
\* m[k] || 0
Or0(m, k) == IF Has(m, k) THEN m[k] ELSE 0
Put(m, k, v) == (k :> v) @@ m

RECURSIVE AssignFrom(_, _, _)
AssignFrom(m, kvs, i) ==
    IF i > Len(kvs) THEN m
    ELSE Only({AssignFrom(n, kvs, j) : <<n, j>> \in {<<Put(m, kvs[i][1], kvs[i][2]), i + 1>>}})
\* a run of assignments m[k] = v, in order
Assign(m, kvs) == Only({AssignFrom(a, b, 1) : <<a, b>> \in {<<m, kvs>>}})

(***************************************************************************)
(* Input data model (spec section 3): YearSetting, Group, Row, DataPoint,  *)
(* LoanYearSummary, asset-register entries, WC and GPR configuration.      *)
(***************************************************************************)
\* the first financial year of the report, as in the examples of the engine's comments
FirstYear == 2025
YearId(i) == 10 + i

\* the `year` field of a YearSetting is a number (2025) in the API; a label
\* such as "2025-2026" is what the comments of the engine expect
YearNumber(i) == [isString |-> FALSE, n |-> FirstYear + i - 1, s |-> ""]
YearLabels == <<"2025-2026", "2026-2027", "2027-2028", "2028-2029">>
YearLabel(i) == [isString |-> TRUE, n |-> 0, s |-> YearLabels[i]]

YearSetting(i, asLabel) ==
    [id |-> YearId(i), year |-> IF asLabel THEN YearLabel(i) ELSE YearNumber(i)]

\* amounts per year index, in whole currency units
Flat(a) == [i \in 1..NumYears |-> a]
Grow(a, b) == [i \in 1..NumYears |-> a + (i - 1) * b]
FirstOnly(a) == [i \in 1..NumYears |-> IF i = 1 THEN a ELSE 0]
Later(a) == [i \in 1..NumYears |-> IF i = 1 THEN 0 ELSE a]

\* one DataPoint per year
DataPoints(amounts) ==
    [i \in 1..NumYears |-> [year_setting |-> YearId(i), value |-> Rs(amounts[i])]]
\* one DataPoint for each of MaxYears years, the amounts growing from a by b a year
LongDataPoints(a, b) ==
    [i \in 1..MaxYears |-> [year_setting |-> YearId(i), value |-> Rs(a + (i - 1) * b)]]
\* no DataPoint for the first year
DataPointsFrom2(amounts) ==
    [i \in 1..(NumYears - 1) |-> [year_setting |-> YearId(i + 1), value |-> Rs(amounts[i + 1])]]

Row(name, tag, data) ==
    [name |-> name, system_tag |-> tag, is_hidden |-> FALSE, is_calculated |-> FALSE,
     is_total_row |-> FALSE, data |-> data]
HiddenRow(name, tag, data) == [Row(name, tag, data) EXCEPT !.is_hidden = TRUE]

Group(name, pageType, tag, bucket, nature) ==
    [name |-> name, page_type |-> pageType, system_tag |-> tag, cf_bucket |-> bucket,
     nature |-> nature, rows |-> <<>>]

\* the statement template: operating, asset and liability groups in page order
TemplateGroups ==
    << Group("Revenue", "operating", "revenue", "", ""),
       Group("Cost of Goods Sold", "operating", "cogs", "", ""),
       Group("Selling, General & Administrative Expenses", "operating", "sga", "", ""),
       Group("Current Assets", "asset", "current_assets", "operating", "asset"),
       Group("Fixed Assets", "asset", "fixed_assets", "investing", "asset"),
       Group("Non-Current Assets", "asset", "non_current_assets", "investing", "asset"),
       Group("Current liabilities", "liability", "current_liabilities", "operating", "liability"),
       Group("Term liabilities", "liability", "term_liabilities", "financing", "liability"),
       Group("Net Worth", "liability", "net_worth", "financing", "liability") >>


(***************************************************************************)
(* The inputs the model draws from: a catalogue of input items (rows with  *)
(* their per-year values, loan summaries, WC and GPR configuration, asset  *)
(* register entries, tax regimes); an input is the template plus at most   *)
(* MaxItems items of the catalogue.                                        *)
(***************************************************************************)
RowItem(g, row) == [kind |-> "rows", rows |-> << [group |-> g, row |-> row] >>]

\* a trading business: one revenue row and one cost row
TradingRows ==
    [kind |-> "rows",
     rows |-> << [group |-> "revenue",
                  row |-> Row("Domestic Sales", "", LongDataPoints(1000, 200))],
                 [group |-> "cogs",
                  row |-> Row("Power & Fuel", "", LongDataPoints(300, 0))] >>]

\* a manufacturing business: sales, raw-material purchases and an opening stock
ManufacturingRows ==
    [kind |-> "rows",
     rows |-> << [group |-> "revenue",
                  row |-> Row("Domestic Sales", "", LongDataPoints(1000, 200))],
                 [group |-> "cogs",
                  row |-> Row("Opening Stock (Raw Materials)", "", LongDataPoints(100, 0))],
                 [group |-> "cogs",
                  row |-> Row("Purchases of Raw Materials", "", LongDataPoints(400, 100))] >>]

\* a company: sales, paid-up share capital and opening reserves
CompanyRows ==
    [kind |-> "rows",
     rows |-> << [group |-> "revenue",
                  row |-> Row("Domestic Sales", "", LongDataPoints(1000, 200))],
                 [group |-> "net_worth",
                  row |-> Row("Ordinary share capital", "share_capital",
                              LongDataPoints(200, 0))],
                 [group |-> "net_worth",
                  row |-> Row("General reserve", "general_reserve",
                              DataPoints(FirstOnly(50)))] >>]

\* a firm: sales, partners' capital, drawings and a share premium
FirmRows ==
    [kind |-> "rows",
     rows |-> << [group |-> "revenue",
                  row |-> Row("Domestic Sales", "", LongDataPoints(1000, 200))],
                 [group |-> "net_worth",
                  row |-> Row("Capital", "capital", LongDataPoints(300, 0))],
                 [group |-> "net_worth",
                  row |-> Row("Drawings", "drawings", LongDataPoints(40, 10))],
                 [group |-> "net_worth",
                  row |-> Row("Share Premium", "", LongDataPoints(70, 0))] >>]

LoanSummary(i, interest, principal, opening, closing) ==
    [year_setting |-> YearId(i), annual_interest |-> Rs(interest),
     annual_principal |-> Rs(principal), opening_balance |-> Rs(opening),
     closing_balance |-> Rs(closing), loan_name |-> "", is_new_loan |-> TRUE]

\* a term loan of 400 repaid by 100 a year, 10% interest
TermLoanSummaries ==
    [i \in 1..NumYears |->
        LoanSummary(i, 40 - 10 * (i - 1), 100, 400 - 100 * (i - 1), 300 - 100 * (i - 1))]

Asset(amount, existing, purchaseYear, startYear) ==
    [id |-> 0, amount |-> Rs(amount), is_existing_asset |-> existing, start_date |-> "",
     purchase_year |-> purchaseYear, start_year |-> startYear,
     depreciation_rate |-> 0, is_second_half_purchase |-> FALSE]

\* an entry of the asset register with its depreciation rate (percent)
RegisterAsset(id, amount, rate, secondHalf, purchaseYear) ==
    [Asset(amount, FALSE, purchaseYear, 0) EXCEPT
        !.id = id, !.depreciation_rate = rate, !.is_second_half_purchase = secondHalf]

(***************************************************************************)
(* handleSaveAssets (ProjectReport page, src/unnamed/part_003 lines        *)
(* 357-576): the asset register computes a Gross block and a Depreciation  *)
(* figure per year by the WDV method and saves them into the rows of those *)
(* names, which calculateAll then reads as inputs.  years is the list of   *)
(* year ids in the order of sortedYears.                                   *)
(***************************************************************************)
\* asset.purchase_year ? parseInt(asset.purchase_year) : startYearId (lines 464-468)
PurchaseYearId(asset, years) ==
    IF asset.purchase_year # 0 THEN asset.purchase_year ELSE years[1]

\* sortedYears.findIndex(y => String(y.id) === String(purchaseYearId)), 1-based, 0: not found
PurchaseYearIndex(asset, years) ==
    FirstIn({k \in 1..Len(years) : years[k] = PurchaseYearId(asset, years)})

\* the per-asset figures of year k (lines 460-495): assetGB, assetDep, assetNB
RECURSIVE AssetWDV(_, _, _)
AssetWDV(asset, years, k) ==
    IF k = 0 THEN [gb |-> 0, dep |-> 0, nb |-> 0]
    ELSE Only({(IF k >= PurchaseYearIndex(asset, years)
                THEN Only({Only({[gb |-> assetGB, dep |-> assetDep, nb |-> assetGB - assetDep] :
                                 assetDep \in {IF isPurchaseYear /\ asset.is_second_half_purchase
                                               THEN (assetGB * asset.depreciation_rate) \div 200
                                               ELSE (assetGB * asset.depreciation_rate) \div 100}}) :
                           <<isPurchaseYear, assetGB>> \in
                               {<<years[k] = PurchaseYearId(asset, years),
                                  before.nb + (IF years[k] = PurchaseYearId(asset, years)
                                               THEN asset.amount ELSE 0)>>}})
                ELSE [gb |-> 0, dep |-> 0, nb |-> before.nb]) :
               before \in {AssetWDV(asset, years, k - 1)}})

\* additionsThisYear (lines 392-405)
AdditionsThisYear(assets, years, k) ==
    SeqSum([i \in 1..Len(assets) |->
               IF years[k] = PurchaseYearId(assets[i], years) THEN assets[i].amount ELSE 0])

\* annualDepMap[year.id] (lines 458-507)
AnnualDep(assets, years, k) ==
    SeqSum([i \in 1..Len(assets) |-> AssetWDV(assets[i], years, k).dep])

\* grossBlockMap[year.id] (lines 407-414, 499-506)
RECURSIVE SavedGrossBlock(_, _, _)
SavedGrossBlock(assets, years, k) ==
    IF k = 1 THEN AdditionsThisYear(assets, years, 1)
    ELSE (SavedGrossBlock(assets, years, k - 1) - AnnualDep(assets, years, k - 1))
         + AdditionsThisYear(assets, years, k)

\* the cells handleSaveAssets saves (lines 531-572); yearIds in the order of yearSettings
SavedCells(values, yearIds) ==
    [i \in 1..Len(yearIds) |-> [year_setting |-> yearIds[i], value |-> values[i]]]

WCSettings(type, existingLimit, existingRate, proposedLimit, proposedRate) ==
    [present |-> TRUE, wc_requirement_type |-> type,
     existing_wc_limit |-> Rs(existingLimit), existing_wc_interest_rate |-> existingRate,
     proposed_wc_limit |-> Rs(proposedLimit), proposed_wc_interest_rate |-> proposedRate]

\* the report object the callers pass when no working capital is asked for
DefaultWCSettings == WCSettings("new", 0, 10, 0, 10)
\* wcSettings === undefined: the destructuring defaults of calculateAll apply
AbsentWCSettings == [DefaultWCSettings EXCEPT !.present = FALSE]

\* the rows the asset register has saved for its assets: Gross block on the asset
\* page, Depreciation on the operating page
RegisterRows(assets) ==
    Only({<< [group |-> "fixed_assets",
              row |-> Row("Gross block", "gross_block",
                          SavedCells([k \in 1..NumYears |-> SavedGrossBlock(assets, years, k)],
                                     years))],
             [group |-> "sga",
              row |-> Row("Depreciation", "",
                          SavedCells([k \in 1..NumYears |-> AnnualDep(assets, years, k)],
                                     years))] >> :
          years \in {[i \in 1..NumYears |-> YearId(i)]}})

\* the rows an item puts into the groups
ItemRows(item) ==
    IF item.kind = "rows" THEN item.rows
    ELSE IF item.kind = "register" THEN RegisterRows(item.assets)
    ELSE <<>>

Catalogue ==
    << TradingRows,
       ManufacturingRows,
       CompanyRows,
       FirmRows,
       RowItem("cogs", Row("Opening Stock (Raw Materials)", "", DataPoints(Grow(100, 50)))),
       RowItem("cogs", Row("Closing Stock (Raw Materials)", "", DataPoints(Later(80)))),
       RowItem("cogs", Row("Closing Stock (Raw Materials)", "", DataPoints(Flat(60)))),
       RowItem("sga", Row("Salaries", "", DataPoints(Flat(100)))),
       RowItem("sga", Row("Depreciation", "", DataPoints(Flat(50)))),
       RowItem("sga", Row("Bank Interest", "", DataPoints(Flat(20)))),
       RowItem("sga", Row("Interest on Unsecured Loans", "", DataPoints(Flat(12)))),
       RowItem("cogs", Row("Interest Charged", "", DataPoints(Flat(10)))),
       RowItem("sga", Row("Depreciation ", "", DataPoints(Flat(45)))),
       RowItem("current_assets", Row("Receivables", "", DataPoints(Grow(100, 50)))),
       RowItem("current_assets", Row("Cash & Bank Balance", "cash_bank", DataPoints(FirstOnly(70)))),
       RowItem("current_assets", Row("Balance with Banks", "", DataPoints(Grow(70, 20)))),
       RowItem("current_assets", Row("Raw materials Domestic", "", DataPoints(Flat(40)))),
       RowItem("current_assets", HiddenRow("Old Deposits", "", DataPoints(Flat(10)))),
       RowItem("sga", HiddenRow("Depreciation", "", DataPoints(Flat(30)))),
       RowItem("sga", HiddenRow("Interest on Deposits Paid", "", DataPoints(Flat(15)))),
       RowItem("net_worth", HiddenRow("Drawings", "drawings", DataPoints(Flat(25)))),
       RowItem("current_assets", Row("Advance Tax", "", DataPointsFrom2(Flat(30)))),
       RowItem("fixed_assets", Row("Gross block", "", DataPoints(Flat(500)))),
       RowItem("fixed_assets", Row("Gross block", "gross_block", DataPoints(Flat(500)))),
       RowItem("fixed_assets", Row("Net block", "", DataPoints(Flat(450)))),
       RowItem("fixed_assets", Row("Capital WIP", "capital_wip", DataPoints(Grow(50, 10)))),
       RowItem("non_current_assets", Row("Security Deposits (MSEB/Rent)", "", DataPoints(Grow(20, 5)))),
       RowItem("current_liabilities", Row("Sundry Creditors", "", DataPoints(Grow(60, 20)))),
       RowItem("current_liabilities", Row("Provision for Taxes", "", DataPoints(Flat(0)))),
       RowItem("current_liabilities", Row("Provision for Taxes", "", DataPoints(Flat(25)))),
       RowItem("current_liabilities", Row("Creditors for Capital Goods", "", DataPoints(Grow(30, 10)))),
       RowItem("term_liabilities", Row("Unsecured Loans", "unsecured_loan", DataPoints(Grow(100, 20)))),
       RowItem("net_worth", Row("Ordinary share capital", "share_capital", DataPoints(Flat(200)))),
       RowItem("net_worth", Row("General reserve", "general_reserve", DataPoints(FirstOnly(50)))),
       RowItem("net_worth", Row("Capital", "capital", DataPoints(Flat(300)))),
       RowItem("net_worth", Row("Drawings", "drawings", DataPoints(Flat(40)))),
       [kind |-> "regime", regime |-> "llp"],
       [kind |-> "regime", regime |-> "proprietorship"],
       [kind |-> "regime", regime |-> "legacy_flat"],
       [kind |-> "loans", loanSummaries |-> [isArray |-> TRUE, items |-> TermLoanSummaries]],
       [kind |-> "loans", loanSummaries |-> [isArray |-> FALSE, items |-> <<>>]],
       [kind |-> "wc", wcSettings |-> WCSettings("enhancement", 200, 10, 100, 12)],
       [kind |-> "wc", wcSettings |-> WCSettings("new", 0, 10, 100, 10)],
       [kind |-> "wc", wcSettings |-> AbsentWCSettings],
       [kind |-> "wcloans",
        existingWCLoans |-> << [bank_name |-> "HDFC", sanctioned_amount |-> Rs(200),
                                interest_rate |-> 10] >>],
       [kind |-> "asset", asset |-> Asset(500, FALSE, YearId(1), 0)],
       [kind |-> "asset", asset |-> Asset(300, FALSE, YearId(2), 0)],
       [kind |-> "asset", asset |-> Asset(400, TRUE, YearId(1), 0)],
       [kind |-> "asset", asset |-> Asset(200, FALSE, 0, FirstYear + 1)],
       [kind |-> "register",
        assets |-> << RegisterAsset(1, 500, 15, FALSE, YearId(1)) >>],
       [kind |-> "register",
        assets |-> << RegisterAsset(1, 400, 10, TRUE, YearId(1)),
                      RegisterAsset(2, 200, 20, FALSE, YearId(2)) >>],
       [kind |-> "gpr", years |-> NumYears,
        gprSettings |-> [enabled |-> TRUE, firstYearIncrement |-> 2, subsequentIncrement |-> 1]],
       [kind |-> "gpr", years |-> MaxYears,
        gprSettings |-> [enabled |-> TRUE, firstYearIncrement |-> 2, subsequentIncrement |-> 1]],
       [kind |-> "yearLabels"],
       [kind |-> "noGroups"],
       [kind |-> "nonCurrentFirst"] >>

ItemIds == 1..Len(Catalogue)

\* kinds of which an input holds at most one item
SingleKinds == {"regime", "loans", "wc", "wcloans", "gpr", "yearLabels", "noGroups", "register",
                "nonCurrentFirst"}

RowKeys(item) ==
    Only({{<<rows[j].group, rows[j].row.name>> : j \in 1..Len(rows)} : rows \in {ItemRows(item)}})

Compatible(S) ==
    \A i, j \in S :
        i # j =>
            /\ ~(Catalogue[i].kind = Catalogue[j].kind /\ Catalogue[i].kind \in SingleKinds)
            /\ {Catalogue[i].kind, Catalogue[j].kind} # {"asset", "register"}
            /\ RowKeys(Catalogue[i]) \cap RowKeys(Catalogue[j]) = {}

RECURSIVE SubsetsUpTo(_)
SubsetsUpTo(k) ==
    IF k = 0 THEN {{}}
    ELSE LET P == SubsetsUpTo(k - 1) IN P \cup {s \cup {i} : s \in P, i \in ItemIds}

Selections == {S \in SubsetsUpTo(MaxItems) : Compatible(S)}

\* the items of a selection, in catalogue order
RECURSIVE ItemsOf(_)
ItemsOf(S) ==
    IF S = {} THEN <<>> ELSE <<Catalogue[Min(S)]>> \o ItemsOf(S \ {Min(S)})

\* the rows the items put into the group with this system_tag
RECURSIVE RowsOfGroup(_, _)
RowsOfGroup(items, g) ==
    IF items = <<>> THEN <<>>
    ELSE LET it == Head(items)
             here == SelectSeq(ItemRows(it), LAMBDA r : r.group = g)
         IN  [j \in 1..Len(here) |-> here[j].row] \o RowsOfGroup(Tail(items), g)

OfKind(items, kind) == SelectSeq(items, LAMBDA it : it.kind = kind)

\* the order of the groups: the template's, or with the Non-Current Assets group
\* ahead of the Current Assets group
GroupOrder(items) ==
    IF OfKind(items, "nonCurrentFirst") = <<>> THEN [g \in 1..Len(TemplateGroups) |-> g]
    ELSE [g \in 1..Len(TemplateGroups) |->
             IF TemplateGroups[g].system_tag = "current_assets"
             THEN CHOOSE h \in 1..Len(TemplateGroups) :
                      TemplateGroups[h].system_tag = "non_current_assets"
             ELSE IF TemplateGroups[g].system_tag = "non_current_assets"
             THEN CHOOSE h \in 1..Len(TemplateGroups) :
                      TemplateGroups[h].system_tag = "current_assets"
             ELSE g]

InputGroups(items) ==
    IF OfKind(items, "noGroups") # <<>> THEN <<>>
    ELSE [g \in 1..Len(TemplateGroups) |->
            [TemplateGroups[GroupOrder(items)[g]] EXCEPT
                !.rows = RowsOfGroup(items, TemplateGroups[GroupOrder(items)[g]].system_tag)]]

\* NumYears years, or the number of years that comes with the GPR settings
InputYearSettings(items) ==
    [i \in 1..(IF OfKind(items, "gpr") = <<>> THEN NumYears ELSE OfKind(items, "gpr")[1].years) |->
        YearSetting(i, OfKind(items, "yearLabels") # <<>>)]

InputRegime(items) ==
    IF OfKind(items, "regime") = <<>> THEN "domestic_22" ELSE OfKind(items, "regime")[1].regime

InputLoanSummaries(items) ==
    IF OfKind(items, "loans") = <<>> THEN [isArray |-> TRUE, items |-> <<>>]
    ELSE OfKind(items, "loans")[1].loanSummaries

InputWCSettings(items) ==
    IF OfKind(items, "wc") = <<>> THEN DefaultWCSettings ELSE OfKind(items, "wc")[1].wcSettings

InputExistingWCLoans(items) ==
    IF OfKind(items, "wcloans") = <<>> THEN <<>> ELSE OfKind(items, "wcloans")[1].existingWCLoans

InputGprSettings(items) ==
    IF OfKind(items, "gpr") = <<>>
    THEN [enabled |-> FALSE, firstYearIncrement |-> 0, subsequentIncrement |-> 0]
    ELSE OfKind(items, "gpr")[1].gprSettings

InputProjectCosts(items) ==
    LET a == OfKind(items, "asset")
        r == OfKind(items, "register")
    IN  [j \in 1..Len(a) |-> a[j].asset] \o (IF r = <<>> THEN <<>> ELSE r[1].assets)

(***************************************************************************)
(* State.  The arguments of calculateAll, the variables of one invocation  *)
(* (results, loanDataByYear, sortedYearSettings, prevYearResults, the      *)
(* position in the per-year block and its locals), and the arguments and   *)
(* return values of calculateTax and of generateLoanSchedule when they are *)
(* exercised on their own.                                                 *)
(***************************************************************************)
VARIABLES allGroups, yearSettings, taxRegime, loanSummaries, gprSettings, wcSettings,
          projectCostsData, existingWCLoans,
          results, loanDataByYear, sortedYearSettings, prevYearResults, yearIndex,
          pc, loc, operatingDeltas, investingDeltas, financingDeltas,
          calls, firstReturn,
          taxPbt, taxRegimeArg, taxOut,
          loanConfig, loanSchedule

inputs == <<allGroups, yearSettings, taxRegime, loanSummaries, gprSettings, wcSettings,
            projectCostsData, existingWCLoans>>
deltas == <<operatingDeltas, investingDeltas, financingDeltas>>
taxVars == <<taxPbt, taxRegimeArg, taxOut>>
loanVars == <<loanConfig, loanSchedule>>
\* the variables of the functions exercised on their own
serviceVars == <<taxVars, loanVars>>
vars == <<inputs, results, loanDataByYear, sortedYearSettings, prevYearResults, yearIndex,
          pc, loc, deltas, calls, firstReturn, serviceVars>>

\* the row and group names of the catalogue, lower-cased once
CatalogueNames ==
    {TemplateGroups[g].name : g \in 1..Len(TemplateGroups)}
    \cup UNION {{Catalogue[c].rows[j].row.name : j \in 1..Len(Catalogue[c].rows)} :
                c \in {d \in ItemIds : Catalogue[d].kind = "rows"}}
LowerCased == [s \in CatalogueNames |-> LowerFrom(s, 1)] @@ <<>>

\* s.toLowerCase()
ToLowerCase(s) ==
    Only({(IF a \in CatalogueNames THEN LowerCased[a] ELSE LowerFrom(a, 1)) : a \in {s}})

(***************************************************************************)
(* Row access.                                                             *)
(***************************************************************************)
\* parseFloat(dp?.value || 0) with dp = row.data.find(d => d.year_setting === yearId)
RowVal(row, yearId) ==
    Only({(IF \E i \in 1..Len(data) : data[i].year_setting = yearId
           THEN data[CHOOSE i \in 1..Len(data) :
                         /\ data[i].year_setting = yearId
                         /\ \A j \in 1..(i - 1) : data[j].year_setting # yearId].value
           ELSE 0) : data \in {row.data}})

RECURSIVE RowsFrom(_, _)
RowsFrom(groups, g) ==
    IF g > Len(groups) THEN <<>> ELSE groups[g].rows \o RowsFrom(groups, g + 1)

\* the rows of all groups in the order the nested loops visit them
AllRows == RowsFrom(allGroups, 1)

\* the test of getVal's row search on a row name
RowMatchesKey(rowName, keyLower) ==
    \E rowLower \in {ToLowerCase(rowName)} :
        \/ rowLower = keyLower
        \/ /\ keyLower = "capital"
           /\ rowLower \in {"ordinary share capital", "share capital"}

\* the row search of getVal (lines 377-391): the value of the first matching row
RowLookup(yearId, key) ==
    Only({Only({(IF idx = 0 THEN 0 ELSE RowVal(rows[idx], yearId)) :
                idx \in {FirstIn({i \in 1..Len(rows) : RowMatchesKey(rows[i].name, keyLower)})}}) :
          <<keyLower, rows>> \in {<<ToLowerCase(key), AllRows>>}})

\* getVal(yearId, key) against the results object res
GetVal(res, yearId, key) ==
    Only({(IF Has(m, key) THEN m[key] ELSE RowLookup(yearId, key)) : m \in {res[yearId]}})

\* the first group whose name, or system_tag, contains the fragment (0: none)
FindGroupByPart(groupNamePart) ==
    Only({FirstIn({g \in 1..Len(allGroups) :
                      \/ Includes(ToLowerCase(allGroups[g].name), part)
                      \/ /\ allGroups[g].system_tag # ""
                         /\ Includes(ToLowerCase(allGroups[g].system_tag),
                                     SpacesToUnderscore(part))}) :
          part \in {ToLowerCase(groupNamePart)}})

\* the exclusion test of sumGroup on a row name
SumGroupExcludes(name, excludeNames) ==
    \E cleanName \in {StripNonAlnum(ToLowerCase(name))} :
        \/ \E ex \in excludeNames : Includes(cleanName, StripNonAlnum(ToLowerCase(ex)))
        \/ Includes(cleanName, "depreciation")
        \/ StartsWith(cleanName, "depr")
        \/ Includes(cleanName, "interest")

\* the rows sumGroup adds up
SumGroupCounts(row, excludeNames) ==
    /\ ~row.is_hidden
    /\ ~SumGroupExcludes(row.name, excludeNames)
    /\ ~row.is_calculated
    /\ ~row.is_total_row
    /\ ~StartsWith(row.name, "=")

\* sumGroup(yearId, groupNamePart, excludeNames)
SumGroup(yearId, groupNamePart, excludeNames) ==
    Only({(IF g = 0 THEN 0
           ELSE Only({SeqSum([i \in 1..Len(rows) |->
                                 IF SumGroupCounts(rows[i], excludeNames)
                                 THEN RowVal(rows[i], yearId) ELSE 0]) :
                      rows \in {allGroups[g].rows}})) :
          g \in {FindGroupByPart(groupNamePart)}})

\* the rows sumAllGroupsByPageType adds up
WideSumCounts(group, row, pageType, excludeSystemTags, excludeRowNames) ==
    /\ group.page_type = pageType
    /\ group.system_tag \notin excludeSystemTags
    /\ ~(row.is_hidden \/ row.is_calculated \/ row.is_total_row)
    /\ ~StartsWith(row.name, "=")
    /\ \E cleanName \in {StripNonAlnum(ToLowerCase(row.name))} :
           ~\E ex \in excludeRowNames : Includes(cleanName, StripNonAlnum(ToLowerCase(ex)))

\* sumAllGroupsByPageType(yearId, pageType, excludeSystemTags, excludeRowNames, resultsObj)
SumAllGroupsByPageType(yearId, pageType, excludeSystemTags, excludeRowNames, resultsObj) ==
    SeqSum([g \in 1..Len(allGroups) |->
        SeqSum([i \in 1..Len(allGroups[g].rows) |->
            Only({(IF WideSumCounts(allGroups[g], row, pageType, excludeSystemTags,
                                    excludeRowNames)
                   THEN IF Has(resultsObj, row.name) THEN resultsObj[row.name]
                        ELSE RowVal(row, yearId)
                   ELSE 0) : row \in {allGroups[g].rows[i]}})])])

(***************************************************************************)
(* Year order: getYearNum and the sort of the year settings.               *)
(***************************************************************************)
IsDigit(c) == IndexIn(DigitChars, c) # 0
DigitVal(c) == IndexIn(DigitChars, c) - 1

RECURSIVE IntToString(_)
IntToString(n) ==
    IF n < 10 THEN CharAt(DigitChars, n + 1)
    ELSE IntToString(n \div 10) \o CharAt(DigitChars, (n % 10) + 1)

RECURSIVE ParseDigits(_, _)
ParseDigits(s, acc) ==
    IF s = "" THEN acc
    ELSE Only({ParseDigits(t, a) :
               <<t, a>> \in {<<SubSeq(s, 2, Len(s)), acc * 10 + DigitVal(CharAt(s, 1))>>}})

\* yStr.toString().match(/\d{4}/), parsed; 0 when yStr is falsy or has no match
GetYearNum(year) ==
    Only({Only({(IF (IF year.isString THEN year.s = "" ELSE year.n = 0) \/ at = 0 THEN 0
                 ELSE ParseDigits(SubSeq(str, at, at + 3), 0)) :
                at \in {FirstIn({i \in 1..(Len(str) - 3) :
                                    \A j \in 0..3 : IsDigit(CharAt(str, i + j))})}}) :
          str \in {IF year.isString THEN year.s ELSE IntToString(year.n)}})

\* stable insertion of y behind the entries that do not sort after it
RECURSIVE InsertByYear(_, _)
InsertByYear(sorted, y) ==
    IF sorted = <<>> THEN <<y>>
    ELSE IF GetYearNum(Head(sorted).year) - GetYearNum(y.year) > 0
         THEN <<y>> \o sorted
         ELSE <<Head(sorted)>> \o InsertByYear(Tail(sorted), y)

RECURSIVE SortByYear(_, _)
SortByYear(todo, sorted) ==
    IF todo = <<>> THEN sorted
    ELSE Only({SortByYear(t, s) :
               <<t, s>> \in {<<Tail(todo), InsertByYear(sorted, Head(todo))>>}})

\* [...yearSettings].sort((a, b) => getYearNum(a.year) - getYearNum(b.year))
SortedYearSettings == SortByYear(yearSettings, <<>>)

(***************************************************************************)
(* Start of an invocation (lines 324-364, 468-479).                        *)
(***************************************************************************)
\* results as a previous invocation left it, when there is one
NewResults_Stale ==
    IF calls = 0 THEN [id \in {yearSettings[i].id : i \in 1..Len(yearSettings)} |-> EmptyMap]
    ELSE results

\* const results = {}; yearSettings.forEach(year => results[year.id] = {})
NewResults == [id \in {yearSettings[i].id : i \in 1..Len(yearSettings)} |-> EmptyMap]

\* loanDataByYear: the summaries accumulated per year id
LoanDataByYear ==
    LET items == IF loanSummaries.isArray THEN loanSummaries.items ELSE <<>>
        ids == {items[i].year_setting : i \in 1..Len(items)}
        total(id, field) ==
            SeqSum([i \in 1..Len(items) |->
                       IF items[i].year_setting = id THEN items[i][field] ELSE 0])
    IN  [id \in ids |->
            [interest |-> total(id, "annual_interest"),
             principal |-> total(id, "annual_principal"),
             closingBalance |-> total(id, "closing_balance"),
             openingBalance |-> total(id, "opening_balance")]]

\* loanDataByYear[yId]?.field || 0
LoanField(yId, field) ==
    IF yId \in DOMAIN loanDataByYear THEN loanDataByYear[yId][field] ELSE 0

NoLocals == EmptyMap

Invoke ==
    /\ pc = "idle"
    /\ results' = NewResults
    /\ loanDataByYear' = LoanDataByYear
    /\ sortedYearSettings' = SortedYearSettings
    /\ prevYearResults' = 0
    /\ yearIndex' = 0
    /\ loc' = NoLocals
    /\ operatingDeltas' = <<>>
    /\ investingDeltas' = <<>>
    /\ financingDeltas' = <<>>
    /\ calls' = calls + 1
    /\ pc' = IF Len(yearSettings) = 0 THEN "returned" ELSE "pnl"
    /\ UNCHANGED <<inputs, firstReturn, serviceVars>>

\* the year the block is working on
Year == sortedYearSettings[yearIndex + 1]
\* prevYearResults is a reference to one of the per-year objects of results (0: null)
PrevMap(res) == IF prevYearResults = 0 THEN EmptyMap ELSE res[prevYearResults]

(***************************************************************************)
(* Rationals for the quotients the engine forms (gross profit ratio, key   *)
(* ratios): [n, d] with d > 0, reduced; a guarded division by 0 gives 0/1. *)
(***************************************************************************)
FracOf(n, d) ==
    IF d = 0 \/ n = 0 THEN [n |-> 0, d |-> 1]
    ELSE Only({[n |-> s * (n \div g), d |-> s * (d \div g)] :
               <<g, s>> \in {<<GCD(n, d), IF d < 0 THEN -1 ELSE 1>>}})
Frac(n, d) == Only({FracOf(a, b) : <<a, b>> \in {<<n, d>>}})
FracZero == Frac(0, 1)
\* (n / d) * 100
FracPercent(n, d) == Only({Frac(q.n * 100, q.d) : q \in {Frac(n, d)}})
\* a * n / d on money units, rounded down to the unit
MulDiv(a, n, d) == (a \div d) * n + (((a % d) * n) \div d)

\* results[yId] gets the assignments kvs
SetY(res, yId, kvs) == [res EXCEPT ![yId] = Assign(@, kvs)]

\* a row that takes part in the P&L loops over a group
IsInputRow(row) ==
    ~row.is_hidden /\ ~row.is_calculated /\ ~row.is_total_row /\ ~StartsWith(row.name, "=")

(***************************************************************************)
(* 1. OPERATING STATEMENT (lines 489-744).                                 *)
(***************************************************************************)
\* A. revenue: the rows of the first group whose name contains "revenue"
TotalRevenue(yId) ==
    Only({(IF g = 0 THEN 0
           ELSE Only({SeqSum([i \in 1..Len(rows) |->
                                 IF IsInputRow(rows[i]) THEN RowVal(rows[i], yId) ELSE 0]) :
                      rows \in {allGroups[g].rows}})) :
          g \in {FirstIn({i \in 1..Len(allGroups) :
                             Includes(ToLowerCase(allGroups[i].name), "revenue")})}})

\* B. the "smart categorization" of a COGS row by its lower-cased name
CogsCategoryOf(name) ==
    IF Includes(name, "opening") /\ Includes(name, "stock") /\ Includes(name, "raw")
    THEN "openStockRM"
    ELSE IF Includes(name, "closing") /\ Includes(name, "stock") /\ Includes(name, "raw")
    THEN "closeStockRM"
    ELSE IF Includes(name, "purchase") /\ Includes(name, "raw") THEN "purchasesRM"
    ELSE IF Includes(name, "freight") /\ Includes(name, "in") THEN "otherRMCosts"
    ELSE IF Includes(name, "opening") /\ Includes(name, "work") /\ Includes(name, "process")
    THEN "openWIP"
    ELSE IF Includes(name, "closing") /\ Includes(name, "work") /\ Includes(name, "process")
    THEN "closeWIP"
    ELSE IF Includes(name, "opening") /\ Includes(name, "finished") THEN "openFG"
    ELSE IF Includes(name, "closing") /\ Includes(name, "finished") THEN "closeFG"
    ELSE "manufacturingExpenses"
CogsCategory(rowName) == Only({CogsCategoryOf(name) : name \in {ToLowerCase(rowName)}})

\* the opening raw-material stock of an opening-stock row (lines 530-542)
OpeningStockRM(res, yId, value) ==
    IF Has(res[yId], "_forced_opening_stock_rm") THEN res[yId]["_forced_opening_stock_rm"]
    ELSE IF yearIndex > 0
    THEN OrElse(Or0(PrevMap(res), "Closing Stock (Raw Materials)"), value)
    ELSE value

CogsStart(res) ==
    [openStockRM |-> 0, closeStockRM |-> 0, purchasesRM |-> 0, otherRMCosts |-> 0,
     manufacturingExpenses |-> 0, openWIP |-> 0, closeWIP |-> 0, openFG |-> 0,
     closeFG |-> 0, res |-> res]

\* one pass of cogsGroup.rows.forEach
CogsRowOf(acc, row, yId, value, cat, prev) ==
    IF cat = "openStockRM"
    THEN Only({[acc EXCEPT !.openStockRM = open,
                           !.res = SetY(acc.res, yId,
                                        << <<row.name, open>>,
                                           <<"Opening Stock (Raw Materials)", open>> >>)] :
               open \in {OpeningStockRM(acc.res, yId, value)}})
    ELSE IF cat = "closeStockRM" THEN [acc EXCEPT !.closeStockRM = value]
    ELSE IF cat = "purchasesRM" THEN [acc EXCEPT !.purchasesRM = @ + value]
    ELSE IF cat = "otherRMCosts" THEN [acc EXCEPT !.otherRMCosts = @ + value]
    ELSE IF cat = "openWIP"
    THEN [acc EXCEPT !.openWIP =
             IF yearIndex = 0 THEN value
             ELSE OrElse(Or0(prev, "Closing Stock (Work-in-Process)"), value)]
    ELSE IF cat = "closeWIP" THEN [acc EXCEPT !.closeWIP = value]
    ELSE IF cat = "openFG"
    THEN [acc EXCEPT !.openFG =
             IF yearIndex = 0 THEN value
             ELSE OrElse(Or0(prev, "Closing Stock (Finished Goods)"), value)]
    ELSE IF cat = "closeFG" THEN [acc EXCEPT !.closeFG = value]
    ELSE [acc EXCEPT !.manufacturingExpenses = @ + value]

CogsRow(acc, row, yId) ==
    IF ~IsInputRow(row) THEN acc
    ELSE Only({CogsRowOf(acc, row, yId, value, cat, prev) :
               <<value, cat, prev>> \in
                   {<<RowVal(row, yId), CogsCategory(row.name), PrevMap(acc.res)>>}})

RECURSIVE CogsLoop(_, _, _, _)
CogsLoop(acc, rows, i, yId) ==
    IF i > Len(rows) THEN acc
    ELSE Only({CogsLoop(a, rows, j, yId) : <<a, j>> \in {<<CogsRow(acc, rows[i], yId), i + 1>>}})

CogsScan(res, yId) ==
    Only({(IF g = 0 THEN start
           ELSE Only({CogsLoop(start, rows, 1, yId) : rows \in {allGroups[g].rows}})) :
          <<g, start>> \in
              {<<FirstIn({i \in 1..Len(allGroups) :
                    \E n \in {ToLowerCase(allGroups[i].name)} :
                        Includes(n, "cost of goods sold") \/ Includes(n, "cogs")}),
                 CogsStart(res)>>}})

\* the closing stock the target GPR asks for in a year > 0 (lines 582-592)
GprClosingStock(c, totalRevenue, targetGPR) ==
    (c.openStockRM + c.purchasesRM + c.otherRMCosts) + c.manufacturingExpenses
    + (c.openWIP - c.closeWIP) + (c.openFG - c.closeFG)
    - (totalRevenue - MulDiv(totalRevenue, targetGPR.n, targetGPR.d * 100))

\* prevGPR + increment with the increment of the year (lines 580-581)
TargetGprOf(prev) ==
    Only({Frac(prevGPR.n + increment * prevGPR.d, prevGPR.d) :
          <<prevGPR, increment>> \in
              {<<IF Has(prev, "_actual_gpr") THEN prev["_actual_gpr"] ELSE FracZero,
                 IF yearIndex = 1 THEN gprSettings.firstYearIncrement
                 ELSE gprSettings.subsequentIncrement>>}})

\* TARGET GPR LOGIC (lines 567-601): the closing stock and results after it
TargetGpr(c, totalRevenue, yId) ==
    IF ~(gprSettings.enabled /\ totalRevenue > 0) THEN c
    ELSE IF yearIndex = 0
    THEN [c EXCEPT !.res = SetY(c.res, yId,
             << <<"_actual_gpr",
                  FracPercent(totalRevenue
                              - (c.openStockRM + c.purchasesRM + c.otherRMCosts - c.closeStockRM
                                 + c.manufacturingExpenses + c.openWIP - c.closeWIP
                                 + c.openFG - c.closeFG),
                              totalRevenue)>> >>)]
    ELSE Only({Only({
             [c EXCEPT !.closeStockRM = closeStockRM,
                       !.res = Only({
                           \* yearSettings[yearIndex + 1]: the list as passed in, not sorted
                           (IF yearIndex < Len(yearSettings) - 1
                            THEN SetY(res1, yearSettings[yearIndex + 2].id,
                                      << <<"_forced_opening_stock_rm", closeStockRM>> >>)
                            ELSE res1) :
                           res1 \in {SetY(c.res, yId,
                                       << <<"_actual_gpr", targetGPR>>,
                                          <<"Closing Stock (Raw Materials)", closeStockRM>> >>
                                       \o (IF Or0(c.res[yId], "Closing Stock") # 0
                                           THEN << <<"Closing Stock", closeStockRM>> >>
                                           ELSE <<>>))}})] :
             closeStockRM \in {GprClosingStock(c, totalRevenue, targetGPR)}}) :
          targetGPR \in {TargetGprOf(PrevMap(c.res))}})

\* wcSettings || {} with the destructuring defaults of lines 329-335
WCDefaults ==
    [wc_requirement_type |-> "new", existing_wc_limit |-> 0, existing_wc_interest_rate |-> 10,
     proposed_wc_limit |-> 0, proposed_wc_interest_rate |-> 10]
WC(field) == IF wcSettings.present THEN wcSettings[field] ELSE WCDefaults[field]

\* WC interest (lines 624-643)
WcInterestOf(loan) == (loan.sanctioned_amount * loan.interest_rate) \div 100
WcInterestExisting ==
    IF Len(existingWCLoans) > 0
    THEN SeqSum([i \in 1..Len(existingWCLoans) |-> WcInterestOf(existingWCLoans[i])])
    ELSE IF WC("wc_requirement_type") = "enhancement"
    THEN (WC("existing_wc_limit") * WC("existing_wc_interest_rate")) \div 100
    ELSE 0
WcInterestProposed == (WC("proposed_wc_limit") * WC("proposed_wc_interest_rate")) \div 100
WcInterestKeys ==
    (IF Len(existingWCLoans) > 0
     THEN [i \in 1..Len(existingWCLoans) |->
              <<"Interest on " \o existingWCLoans[i].bank_name \o " WC",
                WcInterestOf(existingWCLoans[i])>>]
     ELSE IF WC("wc_requirement_type") = "enhancement"
     THEN << <<"Interest on Existing Working Capital", WcInterestExisting>> >>
     ELSE <<>>)
    \o << <<"Interest on Proposed Working Capital", WcInterestProposed>> >>

\* the loan summaries of the year, in order
LoanSummariesOf(yId) ==
    IF loanSummaries.isArray
    THEN SelectSeq(loanSummaries.items, LAMBDA s : s.year_setting = yId)
    ELSE <<>>
LoanName(summary) ==
    IF summary.loan_name # "" THEN summary.loan_name
    ELSE IF summary.is_new_loan THEN "New Term Loan" ELSE "Term Loan"
LoanInterestKeys(yId) ==
    LET s == LoanSummariesOf(yId)
    IN  [i \in 1..Len(s) |-> <<"Interest on " \o LoanName(s[i]), s[i].annual_interest>>]

\* the rows the interest scan of lines 682-697 adds up
IsOtherInterestRow(row) ==
    \E name \in {ToLowerCase(row.name)} :
        /\ Includes(name, "interest")
        /\ ~Includes(name, "total interest")
        /\ ~Includes(name, "term loan interest")
        /\ ~Includes(name, "working capital interest")
        /\ ~StartsWith(name, "interest on")
        /\ ~Includes(name, "interest coverage")
OtherInterest(yId) ==
    Only({SeqSum([i \in 1..Len(rows) |->
                     IF IsOtherInterestRow(rows[i]) THEN RowVal(rows[i], yId) ELSE 0]) :
          rows \in {AllRows}})

SgaExcludes == {"Depreciation", "Interest", "Depriciation", "Equipment", "Depr", "Amortization"}

OperatingStatement ==
    /\ pc = "pnl"
    /\ \E yId \in {Year.id} :
       \E totalRevenue \in {TotalRevenue(yId)} :
       \E c0 \in {CogsScan(SetY(results, yId, << <<"Total Revenue", totalRevenue>>,
                                                 <<"Total Sales", totalRevenue>> >>), yId)} :
       \E c \in {TargetGpr(c0, totalRevenue, yId)} :
       \E rmConsumed \in {c.openStockRM + c.purchasesRM + c.otherRMCosts - c.closeStockRM} :
       \E grossFactoryCost \in {rmConsumed + c.manufacturingExpenses} :
       \E factoryCostProduced \in {grossFactoryCost + c.openWIP - c.closeWIP} :
       \E cogs \in {factoryCostProduced + c.openFG - c.closeFG} :
       \E grossProfit \in {totalRevenue - cogs} :
       \E totalSGA \in {SumGroup(yId, "Selling", SgaExcludes)} :
       \E ebitda \in {grossProfit - totalSGA} :
       \E termLoanInterest \in {LoanField(yId, "interest")} :
       \E otherInterest \in {OtherInterest(yId)} :
       \E wcInterestExisting \in {WcInterestExisting} :
       \E wcInterestProposed \in {WcInterestProposed} :
       \E totalInterest \in {termLoanInterest + otherInterest + wcInterestExisting
                             + wcInterestProposed} :
       \E res2 \in {SetY(c.res, yId,
                     << <<"Raw Material Consumed", rmConsumed>>,
                        <<"Total Manufacturing Expenses", c.manufacturingExpenses>>,
                        <<"Gross Factory Cost", grossFactoryCost>>,
                        <<"Factory Cost of Goods Produced", factoryCostProduced>>,
                        <<"Cost of Goods Sold (COGS)", cogs>>,
                        <<"Gross Profit", grossProfit>>,
                        <<"Gross Profit Ratio", FracPercent(grossProfit, totalRevenue)>> >>
                     \o WcInterestKeys
                     \o << <<"Total SG&A Expenses", totalSGA>>,
                           <<"Total Selling, General & Administrative Expenses", totalSGA>>,
                           <<"Selling, General, and Admn. Exp. Total", totalSGA>>,
                           <<"EBITDA", ebitda>>,
                           <<"Profit before Depreciation, Interest and Tax", ebitda>> >>
                     \o LoanInterestKeys(yId)
                     \o << <<"Term Loan Interest", termLoanInterest>>,
                           <<"Working Capital Interest", 0>>,
                           <<"Other Interest", otherInterest>>,
                           <<"Total Interest", totalInterest>> >>)} :
       \E depreciation \in {OrElse(GetVal(res2, yId, "Depreciation"),
                                   GetVal(res2, yId, "Depreciation (Office Equipment)"))} :
       \E opProfit \in {ebitda - depreciation} :
       \E pbt \in {ebitda - totalInterest - depreciation} :
       \E taxDetails \in {CalculateTax(ToFx(pbt), taxRegime)} :
       \E taxTotal \in {FromFx(taxDetails.total)} :
       \E pat \in {pbt - taxTotal} :
       \E res3 \in {SetY(res2, yId,
                     << <<"Depreciation", depreciation>>,
                        <<"Depreciation (Office Equipment)", depreciation>>,
                        <<"Operating Profit (EBIT)", opProfit>>,
                        <<"Profit After Depreciation", opProfit>>,
                        <<"EBIT", opProfit>>,
                        <<"Profit Before Tax", pbt>>,
                        <<"Profit/loss before tax", pbt>>,
                        <<"Tax", FromFx(taxDetails.tax)>>,
                        <<"Surcharge", FromFx(taxDetails.surcharge)>>,
                        <<"Cess", FromFx(taxDetails.cess)>>,
                        <<"Total Tax", taxTotal>>,
                        <<"Provision for Taxes", taxTotal>>,
                        <<"Profit After Tax (PAT)", pat>>,
                        <<"PAT", pat>> >>)} :
       \E dividends \in {GetVal(res3, yId, "Equity / Dividend Paid Amount")} :
       \E divTax \in {GetVal(res3, yId, "Dividend Tax including Surcharge")} :
       \E retainedProfit \in {pat - (dividends + divTax)} :
          /\ results' = SetY(res3, yId, << <<"Retained Profit", retainedProfit>> >>)
          /\ loc' = [totalRevenue |-> totalRevenue,
                     openStockRM |-> c.openStockRM, closeStockRM |-> c.closeStockRM,
                     closeWIP |-> c.closeWIP, closeFG |-> c.closeFG, cogs |-> cogs,
                     wcInterestExisting |-> wcInterestExisting,
                     wcInterestProposed |-> wcInterestProposed,
                     termLoanInterest |-> termLoanInterest, otherInterest |-> otherInterest,
                     totalInterest |-> totalInterest, depreciation |-> depreciation,
                     opProfit |-> opProfit, pbt |-> pbt, taxTotal |-> taxTotal, pat |-> pat,
                     dividends |-> dividends, divTax |-> divTax,
                     retainedProfit |-> retainedProfit]
    /\ pc' = "bs"
    /\ UNCHANGED <<inputs, loanDataByYear, sortedYearSettings, prevYearResults, yearIndex,
                   deltas, calls, firstReturn, serviceVars>>

(***************************************************************************)
(* 2. BALANCE SHEET (lines 746-1026).                                      *)
(***************************************************************************)
\* parseInt(label.split('-')[0]); -1 stands for NaN
DigitPrefix(s) ==
    Only({SubSeq(a, 1, FirstIn({i \in 0..Len(a) :
                                   i = Len(a) \/ ~IsDigit(CharAt(a, i + 1))})) :
          a \in {s}})
ParseIntPrefix(s) ==
    Only({(IF d = "" THEN -1 ELSE ParseDigits(d, 0)) : d \in {DigitPrefix(TrimLeft(s))}})

Truthy(year) == IF year.isString THEN year.s # "" ELSE year.n # 0

\* the filter callback of lines 787-809 on one asset: "in", "out", or "throw"
\* when .split is called on a year that is a number
AssetFilter(asset, yId, currentYearLabel) ==
    IF asset.is_existing_asset THEN "out"
    ELSE IF /\ asset.start_date # ""
            /\ currentYearLabel.isString
            /\ asset.start_date = currentYearLabel.s
    THEN "in"
    ELSE IF asset.purchase_year # 0 /\ asset.purchase_year = yId THEN "in"
    ELSE IF asset.start_year # 0 /\ Truthy(currentYearLabel)
    THEN IF ~currentYearLabel.isString THEN "throw"
         ELSE IF asset.start_year = ParseIntPrefix(currentYearLabel.s) THEN "in" ELSE "out"
    ELSE "out"

\* yearSettings[yearIndex]?.year, read from the list as passed in
CurrentYearLabel ==
    IF yearIndex + 1 <= Len(yearSettings) THEN yearSettings[yearIndex + 1].year
    ELSE [isString |-> TRUE, n |-> 0, s |-> ""]

AssetVerdicts(yId) ==
    [i \in 1..Len(projectCostsData) |-> AssetFilter(projectCostsData[i], yId, CurrentYearLabel)]

AssetFilterThrows(yId) ==
    \E i \in 1..Len(projectCostsData) : AssetVerdicts(yId)[i] = "throw"

\* additions dated into the year (lines 781-811)
AssetAdditions(yId) ==
    SeqSum([i \in 1..Len(projectCostsData) |->
               IF AssetVerdicts(yId)[i] = "in" THEN projectCostsData[i].amount ELSE 0])

\* the previous year's net block (lines 822-825)
PrevNetBlock(res) ==
    LET prev == PrevMap(res)
    IN  IF prevYearResults = 0 THEN 0
        ELSE IF Has(prev, "_net_block_carry") THEN prev["_net_block_carry"]
        ELSE OrElse(Or0(prev, "Net block"), Or0(prev, "Net Block"))

\* the "robust assignment" over the rows of the fixed-asset group (lines 837-850)
FixedAssetRowKind(row) ==
    Only({(IF Includes(lowerName, "gross block") THEN "gross"
           ELSE IF lowerName = "net block" THEN "net" ELSE "") :
          lowerName \in {Trim(ToLowerCase(row.name))}})
FixedAssetRowKeys(grossBlock, netBlock) ==
    Only({(IF g = 0 THEN <<>>
           ELSE Only({[i \in 1..Len(hit) |->
                         <<hit[i][1].name, IF hit[i][2] = "gross" THEN grossBlock ELSE netBlock>>] :
                      hit \in {SelectSeq([i \in 1..Len(allGroups[g].rows) |->
                                            <<allGroups[g].rows[i],
                                              FixedAssetRowKind(allGroups[g].rows[i])>>],
                                         LAMBDA p : p[2] # "")}})) :
          g \in {FirstIn({i \in 1..Len(allGroups) :
                             \/ Includes(ToLowerCase(allGroups[i].name), "fixed")
                             \/ allGroups[i].system_tag = "fixed_assets"})}})

WcLiabilityExisting ==
    IF Len(existingWCLoans) > 0
    THEN SeqSum([i \in 1..Len(existingWCLoans) |-> existingWCLoans[i].sanctioned_amount])
    ELSE IF WC("wc_requirement_type") = "enhancement" THEN WC("existing_wc_limit")
    ELSE 0
WcLiabilityProposed == WC("proposed_wc_limit")
WcLiabilityKeys ==
    (IF Len(existingWCLoans) > 0
     THEN [i \in 1..Len(existingWCLoans) |->
              <<existingWCLoans[i].bank_name \o " WC Limit",
                existingWCLoans[i].sanctioned_amount>>]
     ELSE IF WC("wc_requirement_type") = "enhancement"
     THEN << <<"Existing Working Capital Limit", WcLiabilityExisting>> >>
     ELSE <<>>)
    \o << <<"Proposed Working Capital Limit", WcLiabilityProposed>> >>

LoanClosingKeys(yId) ==
    LET s == LoanSummariesOf(yId)
    IN  [i \in 1..Len(s) |-> <<LoanName(s[i]) \o " (Closing Balance)", s[i].closing_balance>>]

NetWorthOtherHeadsExcludes ==
    {"Capital", "Drawings", "General reserve", "Total Net Worth", "Ordinary share capital",
     "Share Capital", "Reserves & Surplus"}
ShareCapitalExcludes == {"General reserve", "Net worth", "liability"}

\* capital of the year carried as the full Net worth of the year before
LlpCapital_FullNetWorth(res, yId, prev) ==
    IF yearIndex = 0
    THEN OrElse(GetVal(res, yId, "Capital"), GetVal(res, yId, "Ordinary share capital"))
    ELSE Or0(prev, "Net worth")

\* capital of the year in the LLP / proprietorship branch (lines 927-938)
LlpCapital(res, yId, prev) ==
    IF yearIndex = 0
    THEN OrElse(GetVal(res, yId, "Capital"), GetVal(res, yId, "Ordinary share capital"))
    ELSE Or0(prev, "Capital")
         + OrElse(Or0(prev, "General Reserve (PAT)"), Or0(prev, "Profit After Tax (PAT)"))
         - Or0(prev, "Drawings")

\* E. NET WORTH, LLP / proprietorship branch (lines 918-957)
NetWorthLlp(res, yId) ==
    Only({Only({Only({
        [res |-> SetY(res1, yId, << <<"Drawings", yearDrawings>>,
                                    <<"General Reserve (PAT)",
                                      Or0(res1[yId], "Profit After Tax (PAT)")>> >>),
         shareCapital |-> capital,
         totalNetWorth |-> capital - yearDrawings + Or0(res1[yId], "Profit After Tax (PAT)")
                           + SumGroup(yId, "Net Worth", NetWorthOtherHeadsExcludes)] :
        yearDrawings \in {GetVal(res1, yId, "Drawings")}}) :
        res1 \in {SetY(res, yId, << <<"Capital", capital>> >>)}}) :
        capital \in {LlpCapital(res, yId, PrevMap(res))}})

\* share capital and other equity of a company, with the two fallbacks (lines 963-973)
DomesticShareCapital(yId) ==
    OrElse(SumGroup(yId, "Shareholders", ShareCapitalExcludes),
           OrElse(SumGroup(yId, "Share capital", ShareCapitalExcludes),
                  SumGroup(yId, "Net Worth", ShareCapitalExcludes)))

\* the company branch with Reserves reset to the figure of the year, not carried
NetWorthDomestic_Reset(res, yId, retainedProfit) ==
    Only({[res |-> SetY(res, yId, << <<"Reserves", currentReserves>>,
                                     <<"General reserve", currentReserves>>,
                                     <<"Retained Earnings", currentReserves>> >>),
           shareCapital |-> 0,
           totalNetWorth |-> DomesticShareCapital(yId) + currentReserves] :
          currentReserves \in {GetVal(res, yId, "General reserve") + retainedProfit}})

\* E. NET WORTH, company branch (lines 958-996); its shareCapital is a local of
\* the branch, the outer one stays 0
NetWorthDomestic(res, yId, retainedProfit) ==
    Only({[res |-> SetY(res, yId, << <<"Reserves", currentReserves>>,
                                     <<"General reserve", currentReserves>>,
                                     <<"Retained Earnings", currentReserves>> >>),
           shareCapital |-> 0,
           totalNetWorth |-> DomesticShareCapital(yId) + currentReserves] :
          currentReserves \in
              {IF yearIndex = 0 THEN GetVal(res, yId, "General reserve") + retainedProfit
               ELSE (IF prevYearResults = 0 THEN 0 ELSE Or0(PrevMap(res), "Reserves"))
                    + retainedProfit}})

LiabilityExcludedTags ==
    {"total_liabilities", "total_assets", "net_worth", "net_worth_total", "reserves_surplus",
     "shareholders_equity"}
LiabilityExcludedRows ==
    {"provision for taxes", "term loans", "term loan", "existing working capital",
     "proposed working capital", "share capital", "ordinary share capital", "general reserve",
     "capital", "drawings", "retained earnings", "reserves & surplus", "capital reserve",
     "share premium"}

\* lines 752-774: the stock heads of the balance sheet follow the operating statement
StockHeads(yId) ==
    Only({Only({Only({Only({Only({
        [res |-> SetY(res2, yId, << <<"Finished goods", loc.closeFG>>,
                                    <<"Closing Stock (Finished Goods)", loc.closeFG>> >>),
         nonCashCurrentAssets |->
             SumGroup(yId, "Current assets", {"Cash", "Bank"}) - gridRM - gridWIP - gridFG
             + loc.closeStockRM + loc.closeWIP + loc.closeFG] :
        gridFG \in {GetVal(res2, yId, "Finished goods")}}) :
        res2 \in {SetY(res1, yId, << <<"Stock in process", loc.closeWIP>>,
                                     <<"Closing Stock (Work-in-Process)", loc.closeWIP>> >>)}}) :
        gridWIP \in {GetVal(res1, yId, "Stock in process")}}) :
        res1 \in {SetY(results, yId, << <<"Raw materials Domestic", loc.closeStockRM>>,
                                        <<"Closing Stock (Raw Materials)", loc.closeStockRM>> >>)}}) :
        gridRM \in {GetVal(results, yId, "Raw materials Domestic")}})

BalanceSheetThrows ==
    /\ pc = "bs"
    /\ Len(projectCostsData) > 0
    /\ AssetFilterThrows(Year.id)
    /\ results' = StockHeads(Year.id).res
    /\ pc' = "threw"
    /\ UNCHANGED <<inputs, loanDataByYear, sortedYearSettings, prevYearResults, yearIndex,
                   loc, deltas, calls, firstReturn, serviceVars>>

BalanceSheet ==
    /\ pc = "bs"
    /\ ~(Len(projectCostsData) > 0 /\ AssetFilterThrows(Year.id))
    /\ \E yId \in {Year.id} :
       \E sh \in {StockHeads(yId)} :
       \E assetAdditions \in {IF Len(projectCostsData) > 0 THEN AssetAdditions(yId) ELSE 0} :
       \E grossBlock \in {IF yearIndex = 0
                          THEN GetVal(sh.res, yId, "Gross block") + assetAdditions
                          ELSE PrevNetBlock(sh.res) + assetAdditions} :
       \E netBlock \in {grossBlock - loc.depreciation} :
       \E res1 \in {SetY(sh.res, yId,
                        << <<"Gross block", grossBlock>>, <<"Net block", netBlock>>,
                           <<"_net_block_carry", netBlock>> >>
                        \o FixedAssetRowKeys(grossBlock, netBlock)
                        \o << <<"Asset Additions", assetAdditions>> >>)} :
       \E capitalWIP \in {GetVal(res1, yId, "Capital WIP")} :
       \E intangibleAssets \in {GetVal(res1, yId, "Intangible Assets")} :
       \E totalFixedAssets \in {netBlock + capitalWIP + intangibleAssets} :
       \E totalCurrentLiabilitiesInput \in
              {SumGroup(yId, "Current liabilities", {"Provision for Taxes"})} :
       \E wcLiabilityExisting \in {WcLiabilityExisting} :
       \E wcLiabilityProposed \in {WcLiabilityProposed} :
       \E totalCurrentLiabilities \in {totalCurrentLiabilitiesInput + loc.taxTotal
                                       + wcLiabilityExisting + wcLiabilityProposed} :
       \E termLiabilitiesInput \in {SumGroup(yId, "Term liabilities", {"Term loans"})} :
       \E loanOutstanding \in {LoanField(yId, "closingBalance")} :
       \E totalTermLiabilities \in {termLiabilitiesInput + loanOutstanding} :
       \E res2 \in {SetY(res1, yId,
                        << <<"Total Fixed Assets", totalFixedAssets>> >>
                        \o WcLiabilityKeys
                        \o << <<"Total current liability", totalCurrentLiabilities>>,
                              <<"Total Current Liabilities", totalCurrentLiabilities>>,
                              <<"Provision for Taxes", loc.taxTotal>> >>
                        \o LoanClosingKeys(yId)
                        \o << <<"Total term liabilities", totalTermLiabilities>>,
                              <<"Total Term Liabilities", totalTermLiabilities>>,
                              <<"Term loans (excluding installments)", loanOutstanding>> >>)} :
       \E nw \in {IF taxRegime \in {"llp", "proprietorship"}
                  THEN NetWorthLlp(res2, yId)
                  ELSE NetWorthDomestic(res2, yId, loc.retainedProfit)} :
       \E res3 \in {SetY(nw.res, yId, << <<"Net worth", nw.totalNetWorth>>,
                                         <<"Net Worth", nw.totalNetWorth>>,
                                         <<"Total Net Worth", nw.totalNetWorth>> >>)} :
       \E allLiabilityRowsSum \in
              {SumAllGroupsByPageType(yId, "liability", LiabilityExcludedTags,
                                      LiabilityExcludedRows, res3[yId])} :
       \E totalLiabilities \in {allLiabilityRowsSum + loc.taxTotal + loanOutstanding
                                + wcLiabilityExisting + wcLiabilityProposed
                                + nw.totalNetWorth} :
          /\ results' = SetY(res3, yId,
                   << <<"Total liabilities", totalLiabilities>>,
                      <<"Total Liabilities", totalLiabilities>>,
                      <<"Total Liabilities and Net Worth", totalLiabilities>>,
                      <<"_debug_allLiabilityRowsSum", allLiabilityRowsSum>>,
                      <<"_debug_taxInjection", loc.taxTotal>>,
                      <<"_debug_loanInjection", loanOutstanding>>,
                      <<"_debug_wcInjection", wcLiabilityExisting + wcLiabilityProposed>>,
                      <<"_debug_netWorthInjection", nw.totalNetWorth>> >>)
          /\ loc' = Assign(loc,
                   << <<"nonCashCurrentAssets", sh.nonCashCurrentAssets>>,
                      <<"grossBlock", grossBlock>>, <<"netBlock", netBlock>>,
                      <<"assetAdditions", assetAdditions>>,
                      <<"capitalWIP", capitalWIP>>, <<"intangibleAssets", intangibleAssets>>,
                      <<"totalFixedAssets", totalFixedAssets>>,
                      <<"totalCurrentLiabilities", totalCurrentLiabilities>>,
                      <<"wcLiabilityExisting", wcLiabilityExisting>>,
                      <<"wcLiabilityProposed", wcLiabilityProposed>>,
                      <<"loanOutstanding", loanOutstanding>>,
                      <<"totalTermLiabilities", totalTermLiabilities>>,
                      <<"shareCapital", nw.shareCapital>>,
                      <<"totalNetWorth", nw.totalNetWorth>>,
                      <<"totalLiabilities", totalLiabilities>> >>)
    /\ pc' = "scan"
    /\ UNCHANGED <<inputs, loanDataByYear, sortedYearSettings, prevYearResults, yearIndex,
                   deltas, calls, firstReturn, serviceVars>>

(***************************************************************************)
(* 3. CASH FLOW STATEMENT, operating part: the add-backs and the delta     *)
(* scan over the balance-sheet rows (lines 1029-1326).                     *)
(***************************************************************************)
IsLlpOrProprietorship == taxRegime \in {"llp", "proprietorship"}

\* the body of getRowCFBucket on the lower-cased name and the tag of the row
BucketOf(lowerName, tag, groupCfBucket) ==
        IF \/ tag = "cash_bank"
           \/ /\ Includes(lowerName, "cash")
              /\ (Includes(lowerName, "bank") \/ Includes(lowerName, "hand"))
        THEN "skip"
        ELSE IF tag \in {"retained_earnings", "general_reserve"} THEN "skip"
        ELSE IF /\ IsLlpOrProprietorship
                /\ \/ lowerName = "capital" \/ tag = "capital" \/ lowerName = "partner's capital"
                   \/ lowerName = "drawings" \/ tag = "drawings"
                   \/ Includes(lowerName, "general reserve")
        THEN "skip"
        ELSE IF Includes(lowerName, "interest") /\ ~Includes(lowerName, "interest coverage")
        THEN "skip"
        ELSE IF tag # ""
        THEN IF tag \in {"wc_borrowing", "drawings", "share_capital", "unsecured_loan", "term_loan"}
             THEN "financing"
             ELSE IF tag \in {"gross_block", "net_block", "accum_depr"} THEN "skip"
             ELSE IF tag = "capital_wip" THEN "investing"
             ELSE IF tag = "dtl"
             THEN IF \/ Includes(lowerName, "cc limit") \/ Includes(lowerName, "od limit")
                     \/ Includes(lowerName, "packing credit")
                     \/ Includes(lowerName, "short term borrowing")
                     \/ Includes(lowerName, "unsecured loan")
                     \/ Includes(lowerName, "partner's capital")
                     \/ Includes(lowerName, "share capital")
                     \/ Includes(lowerName, "ordinary share capital")
                     \/ Includes(lowerName, "bills payable")
                     \/ (Includes(lowerName, "current maturity") /\ Includes(lowerName, "debt"))
                  THEN "financing"
                  ELSE IF Includes(lowerName, "gross block") \/ Includes(lowerName, "net block")
                  THEN "skip"
                  ELSE "investing"
             ELSE groupCfBucket
        ELSE groupCfBucket

\* getRowCFBucket(row, groupCfBucket) (lines 1059-1143)
GetRowCFBucket(row, groupCfBucket) ==
    Only({BucketOf(lowerName, row.system_tag, groupCfBucket) :
          lowerName \in {ToLowerCase(row.name)}})

\* the groups the scan visits (lines 1148-1154)
ScanVisits(group) ==
    /\ group.page_type # "operating"
    /\ group.system_tag \notin {"total_assets", "total_liabilities", "net_worth_total",
                                "reserves_surplus"}
    /\ group.cf_bucket \notin {"cash_equivalent", "skip"}

\* group.cf_bucket || (classification by system_tag) (lines 1157-1160)
GroupCfBucket(group) ==
    LET tag == group.system_tag
    IN  IF group.cf_bucket # "" THEN group.cf_bucket
        ELSE IF Includes(tag, "current") \/ Includes(tag, "trade") \/ Includes(tag, "provision")
        THEN "operating"
        ELSE IF Includes(tag, "fixed") \/ Includes(tag, "non_current") THEN "investing"
        ELSE IF Includes(tag, "capital") \/ Includes(tag, "borrowing") \/ Includes(tag, "term")
        THEN "financing"
        ELSE "operating"
GroupNature(group) ==
    IF group.nature # "" THEN group.nature
    ELSE IF group.page_type = "asset" THEN "asset" ELSE "liability"

\* the key under which a row's delta is stored (a Delta sign and the row name)
DeltaKey(name) == "Delta " \o name

\* the current value the scan uses for a row (lines 1181-1200)
ScanCurrValOf(m, n, v0, taxTotal) ==
    Only({Only({Only({
        (IF Includes(n, "finished good")
         THEN OrElse(Or0(m, "Finished goods"),
                     OrElse(Or0(m, "Closing Stock (Finished Goods)"), v3))
         ELSE v3) :
        v3 \in {IF \/ Includes(n, "stock in process")
                   \/ (Includes(n, "wip") /\ ~Includes(n, "capital"))
                THEN OrElse(Or0(m, "Stock in process"),
                            OrElse(Or0(m, "Closing Stock (Work-in-Process)"), v2))
                ELSE v2}}) :
        v2 \in {IF Includes(n, "raw material") /\ Includes(n, "domestic")
                THEN OrElse(Or0(m, "Raw materials Domestic"),
                            OrElse(Or0(m, "Closing Stock (Raw Materials)"), v1))
                ELSE v1}}) :
        v1 \in {IF Includes(n, "provision for tax")
                THEN OrElse(Or0(m, "Provision for Taxes"), OrElse(taxTotal, v0))
                ELSE v0}})
ScanCurrVal(m, row, yId, taxTotal) ==
    Only({ScanCurrValOf(m, n, v0, taxTotal) :
          <<n, v0>> \in {<<ToLowerCase(row.name), RowVal(row, yId)>>}})

\* the rows of a group the scan and the audit look at
IsScanRow(row) ==
    ~(row.is_hidden \/ row.is_calculated \/ row.is_total_row \/ StartsWith(row.name, "="))

\* a row the scan takes: its value stored, its delta tracked
ScanTake(acc, row, yId, cfBucket, currVal, delta) ==
    [res |-> SetY(acc.res, yId,
                  << <<row.name, currVal>> >>
                  \o (IF Abs(delta) > Tolerance
                      THEN << <<DeltaKey(row.name), delta>> >> ELSE <<>>)),
     op |-> IF Abs(delta) > Tolerance /\ cfBucket = "operating"
            THEN Append(acc.op, [name |-> row.name, delta |-> delta, bucket |-> cfBucket])
            ELSE acc.op,
     inv |-> IF Abs(delta) > Tolerance /\ cfBucket = "investing"
             THEN Append(acc.inv, [name |-> row.name, delta |-> delta, bucket |-> cfBucket])
             ELSE acc.inv,
     fin |-> IF Abs(delta) > Tolerance /\ cfBucket = "financing"
             THEN Append(acc.fin, [name |-> row.name, delta |-> delta, bucket |-> cfBucket])
             ELSE acc.fin]

\* the rows the scan passes over (lines 1168-1178)
ScanSkips(row, cfBucket) ==
    \/ ~IsScanRow(row)
    \/ cfBucket = "skip"
    \/ \E rowNameLower \in {ToLowerCase(row.name)} :
           Includes(rowNameLower, "term loan") /\ Includes(rowNameLower, "excluding")

\* the body of group.rows.forEach (lines 1166-1236) on one row
ScanRow(acc, group, row, yId, taxTotal) ==
    Only({(IF ScanSkips(row, cfBucket) THEN acc
           ELSE Only({ScanTake(acc, row, yId, cfBucket, currVal,
                               IF GroupNature(group) = "asset" THEN prevVal - currVal
                               ELSE currVal - prevVal) :
                      <<currVal, prevVal>> \in
                          {<<ScanCurrVal(acc.res[yId], row, yId, taxTotal),
                             IF prevYearResults = 0 THEN 0
                             ELSE Or0(PrevMap(acc.res), row.name)>>}})) :
          cfBucket \in {GetRowCFBucket(row, GroupCfBucket(group))}})

RECURSIVE ScanRows(_, _, _, _, _)
ScanRows(acc, group, i, yId, taxTotal) ==
    IF i > Len(group.rows) THEN acc
    ELSE Only({ScanRows(a, group, j, yId, taxTotal) :
               <<a, j>> \in {<<ScanRow(acc, group, group.rows[i], yId, taxTotal), i + 1>>}})

RECURSIVE ScanGroups(_, _, _, _)
ScanGroups(acc, g, yId, taxTotal) ==
    IF g > Len(allGroups) THEN acc
    ELSE Only({ScanGroups(a, h, yId, taxTotal) :
               <<a, h>> \in {<<IF ScanVisits(allGroups[g])
                               THEN ScanRows(acc, allGroups[g], 1, yId, taxTotal)
                               ELSE acc,
                               g + 1>>}})

\* the bucket found for a captured row name (lines 1293-1296)
FindBucket(ds, name) ==
    LET at == FirstIn({i \in 1..Len(ds) : ds[i].name = name})
    IN  IF at = 0 THEN "" ELSE ds[at].bucket

\* one entry of the audit, before the zero deltas are dropped
AuditItemOf(group, row, nature, currVal, prevVal, isCaptured, cfsBucket) ==
    [row |-> row.name, group |-> group.name, nature |-> nature, prevVal |-> prevVal,
     currVal |-> currVal, delta |-> currVal - prevVal,
     cashImpact |-> IF nature = "asset" THEN -(currVal - prevVal) ELSE currVal - prevVal,
     cfsBucket |-> cfsBucket, captured |-> isCaptured,
     leak |-> ~isCaptured /\ cfsBucket = "MISSING"]

\* GLOBAL DELTA AUDIT (lines 1259-1324)
AuditItem(group, row, yId, prev, hasPrev, op, inv, fin) ==
    Only({AuditItemOf(group, row, IF group.page_type = "asset" THEN "asset" ELSE "liability",
                      RowVal(row, yId), IF hasPrev THEN Or0(prev, row.name) ELSE 0, isCaptured,
                      IF isCaptured
                      THEN (IF FindBucket(op, row.name) # "" THEN FindBucket(op, row.name)
                            ELSE IF FindBucket(inv, row.name) # "" THEN FindBucket(inv, row.name)
                            ELSE FindBucket(fin, row.name))
                      ELSE "MISSING") :
          isCaptured \in {\E i \in 1..Len(op \o inv \o fin) :
                             (op \o inv \o fin)[i].name = row.name}})

RECURSIVE AuditFrom(_, _, _, _, _, _, _)
AuditFrom(g, yId, prev, hasPrev, op, inv, fin) ==
    IF g > Len(allGroups) THEN <<>>
    ELSE Only({SelectSeq([i \in 1..Len(rows) |->
                             AuditItem(allGroups[g], rows[i], yId, prev, hasPrev, op, inv, fin)],
                         LAMBDA it : Abs(it.delta) > Tolerance) :
               rows \in {IF allGroups[g].page_type = "operating" THEN <<>>
                         ELSE SelectSeq(allGroups[g].rows, IsScanRow)}})
         \o AuditFrom(g + 1, yId, prev, hasPrev, op, inv, fin)

CashImpactSum(items) == SeqSum([i \in 1..Len(items) |-> items[i].cashImpact])

DeltaScan ==
    /\ pc = "scan"
    /\ \E yId \in {Year.id} :
       \E s \in {ScanGroups([res |-> SetY(results, yId,
                     << <<"Net profit/Profit/Loss after tax", loc.pat>>,
                        <<"Add: Depreciation", loc.depreciation>>,
                        <<"Add: Term Loan Interest", loc.termLoanInterest>>,
                        <<"Add: Working Capital Interest",
                          loc.wcInterestExisting + loc.wcInterestProposed>>,
                        <<"Add: Other Interest", loc.otherInterest>> >>),
                     op |-> <<>>, inv |-> <<>>, fin |-> <<>>], 1, yId, loc.taxTotal)} :
       \E wcAssetChange \in {SeqSum([i \in 1..Len(s.op) |->
                                        IF s.op[i].delta < 0 THEN -s.op[i].delta ELSE 0])} :
       \E wcLiabilityChange \in {SeqSum([i \in 1..Len(s.op) |->
                                            IF s.op[i].delta < 0 THEN 0 ELSE s.op[i].delta])} :
       \E cashFromOperating \in {loc.pat + loc.depreciation + loc.totalInterest
                                 + wcLiabilityChange - wcAssetChange} :
       \E prev \in {PrevMap(s.res)} :
       \E globalDeltaAudit \in {AuditFrom(1, yId, prev, prevYearResults # 0,
                                          s.op, s.inv, s.fin)} :
       \E leaked \in {SelectSeq(globalDeltaAudit, LAMBDA it : it.leak)} :
          /\ results' = SetY(s.res, yId,
                   << <<"Less: Increase in Current Assets", -wcAssetChange>>,
                      <<"Increase in Current Liability", wcLiabilityChange>>,
                      <<"_operatingDeltas", s.op>>,
                      <<"_investingDeltas", s.inv>>,
                      <<"_financingDeltas", s.fin>>,
                      <<"_globalDeltaAudit", globalDeltaAudit>>,
                      <<"_totalBSDelta", CashImpactSum(globalDeltaAudit)>>,
                      <<"_uncapturedDelta", CashImpactSum(leaked)>>,
                      <<"_leakedRows", leaked>>,
                      <<"Net Cash from Operating Activities", cashFromOperating>> >>)
          /\ operatingDeltas' = s.op
          /\ investingDeltas' = s.inv
          /\ financingDeltas' = s.fin
          /\ loc' = Assign(loc, << <<"wcAssetChange", wcAssetChange>>,
                                   <<"wcLiabilityChange", wcLiabilityChange>>,
                                   <<"cashFromOperating", cashFromOperating>> >>)
    /\ pc' = "cfs"
    /\ UNCHANGED <<inputs, loanDataByYear, sortedYearSettings, prevYearResults, yearIndex,
                   calls, firstReturn, serviceVars>>

(***************************************************************************)
(* 3. CASH FLOW STATEMENT, investing and financing parts, net cash flow,   *)
(* opening and closing cash, total assets and the balance sheet check      *)
(* (lines 1328-1560).                                                      *)
(***************************************************************************)
DeltaSum(ds) == SeqSum([i \in 1..Len(ds) |-> ds[i].delta])

\* B. capex shown in the investing section (lines 1330-1340)
PurchaseFA(res) ==
    IF prevYearResults # 0
    THEN (loc.netBlock - Or0(res[prevYearResults], "Net block")) + loc.depreciation
    ELSE loc.grossBlock

\* C.3 the display-only change in share capital (lines 1394-1414)
EquityChangeOf(res, yId, prev, shareCap) ==
    IF prevYearResults # 0
    THEN IF IsLlpOrProprietorship THEN 0
         ELSE shareCap - OrElse(Or0(prev, "Ordinary share capital"), Or0(prev, "Share Capital"))
    ELSE IF ~IsLlpOrProprietorship THEN shareCap
         ELSE OrElse(GetVal(res, yId, "Capital"), loc.shareCapital)
EquityChange(res, yId) ==
    Only({EquityChangeOf(res, yId, prev, shareCap) :
          <<prev, shareCap>> \in {<<PrevMap(res),
                                    OrElse(GetVal(res, yId, "Ordinary share capital"),
                                           GetVal(res, yId, "Share Capital"))>>}})

\* C.4 change in working-capital borrowings (lines 1418-1428)
WcBorrowingChange(res) ==
    Only({(IF prevYearResults # 0
           THEN currWCBorrowing - (Or0(prev, "Existing Working Capital Limit")
                                   + Or0(prev, "Proposed Working Capital Limit"))
           ELSE currWCBorrowing) :
          <<prev, currWCBorrowing>> \in
              {<<PrevMap(res), loc.wcLiabilityExisting + loc.wcLiabilityProposed>>}})

\* the opening cash read from the rows in every year
OpeningCash_FromInput(res, yId) ==
    OrElse(GetVal(res, yId, "Cash & Bank Balance"),
           OrElse(GetVal(res, yId, "Cash in Hand"), GetVal(res, yId, "Balance with Banks")))

\* E. opening cash (lines 1468-1478)
OpeningCash(res, yId) ==
    IF yearIndex = 0
    THEN OrElse(GetVal(res, yId, "Cash & Bank Balance"),
                OrElse(GetVal(res, yId, "Cash in Hand"),
                       GetVal(res, yId, "Balance with Banks")))
    ELSE IF prevYearResults = 0 THEN 0
    ELSE Only({OrElse(Or0(prev, "Closing Cash Balance (as per CFS)"),
                      OrElse(Or0(prev, "Cash & Bank Balance"), Or0(prev, "Total Cash & Bank"))) :
               prev \in {PrevMap(res)}})

\* non-current assets with the legacy fallback (lines 1500-1506)
NonCurrentAssets(res, yId) ==
    OrElse(SumGroup(yId, "Non-Current", {}),
           OrElse(SumGroup(yId, "non_current", {}),
                  GetVal(res, yId, "Long Term Investments")
                  + GetVal(res, yId, "Security Deposits (MSEB/Rent)")
                  + GetVal(res, yId, "Investment in Subsidy")
                  + GetVal(res, yId, "Loans & Advances (LT)")
                  + GetVal(res, yId, "Other Non-Current Assets")))

CashFlow ==
    /\ pc = "cfs"
    /\ \E yId \in {Year.id} :
       \E prev \in {PrevMap(results)} :
       \E hasPrev \in {prevYearResults # 0} :
       \E purchaseFA \in {PurchaseFA(results)} :
       \E cashFromInvesting \in {-purchaseFA + DeltaSum(investingDeltas)} :
       \E loanChange \in {IF hasPrev
                         THEN loc.loanOutstanding - Or0(prev, "Term loans (excluding installments)")
                         ELSE loc.loanOutstanding} :
       \E termLoanProceeds \in {IF hasPrev /\ ~(loanChange > 0) THEN 0 ELSE loanChange} :
       \E termLoanRepayment \in {IF hasPrev /\ ~(loanChange > 0) THEN -loanChange ELSE 0} :
       \E otherTermLiabChange \in {(loc.totalTermLiabilities - loc.loanOutstanding)
               - (IF hasPrev
                  THEN OrElse(Or0(prev, "Total term liability"), Or0(prev, "Total Term Liabilities"))
                       - Or0(prev, "Term loans (excluding installments)")
                  ELSE 0)} :
       \E res1 \in {SetY(results, yId,
                     << <<"Less: Purchase/Addition of Fixed Assets", -purchaseFA>>,
                        <<"Net Cash from Investment Activities", cashFromInvesting>>,
                        <<"Add: Proceeds from Term Loans", termLoanProceeds>>,
                        <<"Less: Repayment of Term Loans", -termLoanRepayment>>,
                        <<"Add/Less: Change in Other Term Liabilities", otherTermLiabChange>> >>)} :
       \E equityChange \in {EquityChange(res1, yId)} :
       \E wcBorrowingChange \in {WcBorrowingChange(res1)} :
       \E drawingsOutflow \in {IF IsLlpOrProprietorship THEN GetVal(res1, yId, "Drawings") ELSE 0} :
       \E dividendPaid \in {loc.dividends + loc.divTax} :
       \E cashFromFinancing \in {loanChange + wcBorrowingChange - drawingsOutflow - dividendPaid
                                - loc.totalInterest + DeltaSum(financingDeltas)} :
       \E netCashFlow \in {loc.cashFromOperating + cashFromInvesting + cashFromFinancing} :
       \E res2 \in {SetY(res1, yId,
                     << <<"Add/Less: Change in Share Capital", equityChange>>,
                        <<"Add/Less: Change in WC Borrowings", wcBorrowingChange>>,
                        <<"Less: Drawings", -drawingsOutflow>>,
                        <<"Less: Dividend Paid", -dividendPaid>>,
                        <<"Less: Interest Paid", -loc.totalInterest>>,
                        <<"Less: Term Loan Interest Paid", -loc.termLoanInterest>>,
                        <<"Less: WC Interest Paid",
                          -(loc.wcInterestExisting + loc.wcInterestProposed)>>,
                        <<"Less: Other Interest Paid", -loc.otherInterest>>,
                        <<"Net Cash from Financing Activities", cashFromFinancing>>,
                        <<"Net Cash Flow During the Year", netCashFlow>> >>)} :
       \E openingCash \in {OpeningCash(res2, yId)} :
       \E closingCashCFS \in {openingCash + netCashFlow} :
       \E totalCurrentAssets \in {loc.nonCashCurrentAssets + closingCashCFS} :
       \E res3 \in {SetY(res2, yId,
                     << <<"Add: Opening Cash Balance", openingCash>>,
                        <<"Closing Cash Balance (as per CFS)", closingCashCFS>>,
                        <<"Cash & Bank Balance", closingCashCFS>>,
                        <<"Cash & bank balance", closingCashCFS>>,
                        <<"Cash in Hand", closingCashCFS>>,
                        <<"Balance with Banks", 0>>,
                        <<"Total Cash & Bank", closingCashCFS>>,
                        <<"Total current asset", totalCurrentAssets>>,
                        <<"Total Current Assets", totalCurrentAssets>>,
                        <<"Total Operating Current Assets", loc.nonCashCurrentAssets>> >>)} :
       \E nonCurrentAssets \in {NonCurrentAssets(res3, yId)} :
       \E totalAssets \in {closingCashCFS + loc.nonCashCurrentAssets + loc.totalFixedAssets
                          + nonCurrentAssets} :
       \E balanceSheetCheck \in {totalAssets - loc.totalLiabilities} :
       \E bsCashChange \in {closingCashCFS
                           - (IF hasPrev THEN Or0(prev, "Closing Cash Balance (as per CFS)") ELSE 0)} :
       \E res4 \in {SetY(res3, yId,
                     << <<"Total Non-Current Assets", nonCurrentAssets>>,
                        <<"Total Asset", totalAssets>>,
                        <<"Total Assets", totalAssets>>,
                        <<"_debug_components",
                          [cash |-> closingCashCFS,
                           operatingCurrentAssets |-> loc.nonCashCurrentAssets,
                           fixedAssets |-> loc.totalFixedAssets,
                           nonCurrentAssets |-> nonCurrentAssets]>>,
                        <<"Balance Sheet Check", balanceSheetCheck>>,
                        <<"BALANCE SHEET CHECK (Assets - Liabilities)", balanceSheetCheck>>,
                        <<"Cash & Bank Balance (as per Balance Sheet)", closingCashCFS>>,
                        <<"CFS Check Diff", balanceSheetCheck>>,
                        <<"_bsCashChange", bsCashChange>>,
                        <<"_netCashFlowFromCFS", netCashFlow>>,
                        <<"_cfsReconciliationDiff", bsCashChange - netCashFlow>> >>)} :
          /\ results' = SetY(res4, yId,
                   << <<"_diagnosticSummary",
                        [year |-> Year.year, totalAssets |-> totalAssets,
                         totalLiabilities |-> loc.totalLiabilities,
                         bsCheck |-> balanceSheetCheck, netCashFlow |-> netCashFlow,
                         bsCashChange |-> bsCashChange,
                         leakedRowCount |-> Len(res4[yId]["_leakedRows"]),
                         uncapturedDelta |-> res4[yId]["_uncapturedDelta"]]>> >>)
           /\ loc' = Assign(loc, << <<"netCashFlow", netCashFlow>>,
                                    <<"closingCashCFS", closingCashCFS>>,
                                    <<"totalCurrentAssets", totalCurrentAssets>>,
                                    <<"totalAssets", totalAssets>> >>)
    /\ pc' = "ratios"
    /\ UNCHANGED <<inputs, loanDataByYear, sortedYearSettings, prevYearResults, yearIndex,
                   deltas, calls, firstReturn, serviceVars>>

(***************************************************************************)
(* The loan schedule service (loanCalculations.js).  Amounts are in money  *)
(* units; the period label and the date of an entry are left out.          *)
(***************************************************************************)
\* the longest tenure of a loan, in months
MaxTenure == 4
LoanAmounts == {0, Rs(1000), Rs(1200)}
\* annual rates in percent; 120 is a monthly rate of one tenth
InterestRates == {0, 120}
RepaymentMethods == {"EMI", "BULLET", "CUSTOM"}

LoanConfigs ==
    [loanAmount : LoanAmounts, interestRate : InterestRates, tenureMonths : 0..MaxTenure,
     moratoriumMonths : 0..MaxTenure, repaymentMethod : RepaymentMethods]

RECURSIVE Pow(_, _)
Pow(b, e) == IF e = 0 THEN 1 ELSE b * Pow(b, e - 1)

\* x.toFixed(2), parsed: the nearest hundredth of a currency unit
ToFixed2(x) ==
    IF x >= 0 THEN ((x + (Den \div 200)) \div (Den \div 100)) * (Den \div 100)
    ELSE -(((-x + (Den \div 200)) \div (Den \div 100)) * (Den \div 100))

\* openingBalance * monthlyRate, with monthlyRate = (interestRate / 100) / 12
MonthlyInterest(openingBalance, interestRate) == MulDiv(openingBalance, interestRate, 1200)

\* calculateEMI(principal, annualRate, tenureMonths), with the monthly rate as
\* the reduced fraction r.n / r.d
CalculateEMI(principal, annualRate, tenureMonths) ==
    IF tenureMonths = 0 \/ principal = 0 THEN 0
    ELSE IF annualRate = 0 THEN principal \div tenureMonths
    ELSE Only({Only({MulDiv(principal, r.n * up, r.d * (up - Pow(r.d, tenureMonths))) :
                     up \in {Pow(r.d + r.n, tenureMonths)}}) :
               r \in {Frac(annualRate, 1200)}})

\* the entry schedule.push adds for a period
ScheduleEntry(period, openingBalance, interest, principal, payment, closingBalance) ==
    [periodIndex |-> period, opening |-> ToFixed2(openingBalance),
     interest |-> ToFixed2(interest), principal |-> ToFixed2(principal),
     payment |-> ToFixed2(payment), closing |-> ToFixed2(closingBalance)]

\* the loop of the EMI branch from the given period on (lines 65-98)
RECURSIVE EmiPeriods(_, _, _, _)
EmiPeriods(config, emi, period, openingBalance) ==
    IF period > config.tenureMonths THEN <<>>
    ELSE Only({Only({Only({
             <<ScheduleEntry(period, openingBalance, interest, principal,
                             IF period > config.moratoriumMonths THEN emi ELSE interest,
                             closingBalance)>>
             \o EmiPeriods(config, emi, period + 1, closingBalance) :
             closingBalance \in {openingBalance - principal}}) :
             principal \in {IF period > config.moratoriumMonths THEN emi - interest ELSE 0}}) :
             interest \in {MonthlyInterest(openingBalance, config.interestRate)}})

\* the loop of the BULLET branch from the given period on (lines 101-127)
RECURSIVE BulletPeriods(_, _, _)
BulletPeriods(config, period, openingBalance) ==
    IF period > config.tenureMonths THEN <<>>
    ELSE Only({Only({
             <<ScheduleEntry(period, openingBalance, interest, principal,
                             interest + principal, openingBalance - principal)>>
             \o BulletPeriods(config, period + 1, openingBalance - principal) :
             principal \in {IF period = config.tenureMonths THEN openingBalance ELSE 0}}) :
             interest \in {MonthlyInterest(openingBalance, config.interestRate)}})

\* generateLoanSchedule(config)
GenerateLoanSchedule(config) ==
    IF config.repaymentMethod = "EMI"
    THEN Only({Only({EmiPeriods(config, emi, 1, config.loanAmount) :
                     emi \in {IF repaymentMonths > 0
                              THEN CalculateEMI(config.loanAmount, config.interestRate,
                                                repaymentMonths)
                              ELSE 0}}) :
               repaymentMonths \in {config.tenureMonths - config.moratoriumMonths}})
    ELSE IF config.repaymentMethod = "BULLET"
    THEN BulletPeriods(config, 1, config.loanAmount)
    ELSE <<>>

\* no schedule asked for
NoLoanConfig ==
    [loanAmount |-> 0, interestRate |-> 0, tenureMonths |-> 0, moratoriumMonths |-> 0,
     repaymentMethod |-> ""]
NoSchedule == [returned |-> FALSE, periods |-> <<>>]
LoanIdle ==
    /\ loanConfig = NoLoanConfig
    /\ loanSchedule = NoSchedule

(***************************************************************************)
(* Key ratios, residual audit, ghost rows and the hand-over to the next    *)
(* year (lines 1564-1715).                                                 *)
(***************************************************************************)
\* n / d when d !== 0, else 0
Ratio(n, d) == Frac(n, d)

IntentionallySkippedPatterns ==
    {"cash", "net block", "gross block", "general reserve", "retained earnings", "interest",
     "provision for tax", "term loan"}

\* the rows the ghost-row pass looks at (lines 1673-1680)
GhostCandidate(group, row) ==
    /\ group.page_type # "operating"
    /\ ~(row.is_total_row \/ row.is_calculated \/ row.is_hidden)
    /\ \E lowerName \in {ToLowerCase(row.name)} :
           ~\E p \in IntentionallySkippedPatterns : Includes(lowerName, p)

WasCaptured(name) ==
    \E all \in {operatingDeltas \o investingDeltas \o financingDeltas} :
        \E i \in 1..Len(all) : all[i].name = name

GhostItem(group, row, currVal, prevVal) ==
    [rowName |-> row.name, groupName |-> group.name, pageType |-> group.page_type,
     delta |-> currVal - prevVal, currVal |-> currVal, prevVal |-> prevVal]

RECURSIVE GhostRowsFrom(_, _, _)
GhostRowsFrom(g, m, prev) ==
    IF g > Len(allGroups) THEN <<>>
    ELSE Only({SelectSeq([i \in 1..Len(rows) |->
                             GhostItem(allGroups[g], rows[i], Or0(m, rows[i].name),
                                       Or0(prev, rows[i].name))],
                         LAMBDA it : Abs(it.delta) > Tolerance /\ ~WasCaptured(it.rowName)) :
               rows \in {SelectSeq(allGroups[g].rows,
                                   LAMBDA r : GhostCandidate(allGroups[g], r))}})
         \o GhostRowsFrom(g + 1, m, prev)

\* Identify Ghost Rows (lines 1665-1704)
GhostRows(res, yId) ==
    Only({GhostRowsFrom(1, m, prev) : <<m, prev>> \in {<<res[yId], PrevMap(res)>>}})

KeyRatios ==
    /\ pc = "ratios"
    /\ \E yId \in {Year.id} :
       \E prev \in {PrevMap(results)} :
       \E totalDebt \in {loc.totalTermLiabilities + loc.totalCurrentLiabilities} :
       \E inventory \in {loc.closeStockRM + GetVal(results, yId, "Stock in process")
                        + GetVal(results, yId, "Finished goods")} :
       \E quickAssets \in {loc.totalCurrentAssets - inventory} :
       \E termLoanPrincipal \in {LoanField(yId, "principal")} :
       \E capitalEmployed \in {loc.totalNetWorth + loc.totalTermLiabilities} :
       \E avgInventory2 \in {IF yearIndex > 0 THEN loc.openStockRM + loc.closeStockRM
                            ELSE 2 * loc.closeStockRM} :
       \E prevTotalLiab \in {Or0(prev, "Total Liabilities")} :
       \E prevTotalAssetsNonCash \in {Or0(prev, "Total Assets") - Or0(prev, "Closing Cash Balance (as per CFS)")} :
       \E liabMovement \in {loc.totalLiabilities - prevTotalLiab} :
       \E assetMovement \in {(loc.totalAssets - loc.closingCashCFS) - prevTotalAssetsNonCash} :
       \E actualBsMovement \in {liabMovement - assetMovement} :
       \E res1 \in {SetY(results, yId,
                     << <<"Current ratio", Ratio(loc.totalCurrentAssets, loc.totalCurrentLiabilities)>>,
                        <<"Quick ratio", Ratio(quickAssets, loc.totalCurrentLiabilities)>>,
                        <<"Fixed Assets Coverage Ratio",
                          Ratio(loc.totalNetWorth, loc.totalFixedAssets)>>,
                        <<"Interest coverage ratio", Ratio(loc.opProfit, loc.totalInterest)>>,
                        <<"Debt Service Coverage Ratio (DSCR)",
                          Ratio(loc.pat + loc.depreciation + loc.termLoanInterest,
                                termLoanPrincipal + loc.termLoanInterest)>>,
                        <<"Return on Capital Employed (ROCE)",
                          FracPercent(loc.opProfit, capitalEmployed)>>,
                        <<"Net profit margin", FracPercent(loc.pat, loc.totalRevenue)>>,
                        <<"Return on Net worth", FracPercent(loc.pat, loc.totalNetWorth)>>,
                        <<"Inventory turnover ratio",
                          Only({Frac(2 * q.n, q.d) : q \in {Ratio(loc.cogs, avgInventory2)}})>>,
                        <<"Fixed asset turnover ratio",
                          Ratio(loc.totalRevenue, loc.totalFixedAssets)>>,
                        <<"Asset turnover ratio",
                          Ratio(loc.totalRevenue, results[yId]["Total Asset"])>>,
                        <<"_residualAudit",
                          [yearDisplay |-> Year.year, liabMovement |-> liabMovement,
                           assetMovement |-> assetMovement,
                           actualBsMovement |-> actualBsMovement,
                           cfsExplanation |-> loc.netCashFlow,
                           leakAmount |-> actualBsMovement - loc.netCashFlow,
                           pat |-> loc.pat, depreciation |-> loc.depreciation,
                           totalInterestExpensed |-> loc.totalInterest]>> >>)} :
       \E res2 \in {SetY(res1, yId, << <<"_ghostRows", GhostRows(res1, yId)>> >>)} :
       \E last \in {yearIndex + 1 = Len(sortedYearSettings)} :
          /\ results' = res2
          /\ prevYearResults' = yId
          /\ yearIndex' = yearIndex + 1
          /\ pc' = IF last THEN "returned" ELSE "pnl"
          /\ firstReturn' = IF last /\ calls = 1 THEN res2 ELSE firstReturn
    /\ loc' = NoLocals
    /\ operatingDeltas' = <<>>
    /\ investingDeltas' = <<>>
    /\ financingDeltas' = <<>>
    /\ UNCHANGED <<inputs, loanDataByYear, sortedYearSettings, calls, serviceVars>>

(***************************************************************************)
(* The engine: one invocation of calculateAll on an input.                 *)
(***************************************************************************)
NoTaxCall == <<>>

EngineIdle ==
    /\ results = EmptyMap
    /\ loanDataByYear = EmptyMap
    /\ sortedYearSettings = <<>>
    /\ prevYearResults = 0
    /\ yearIndex = 0
    /\ pc = "idle"
    /\ loc = NoLocals
    /\ operatingDeltas = <<>>
    /\ investingDeltas = <<>>
    /\ financingDeltas = <<>>
    /\ calls = 0
    /\ firstReturn = EmptyMap

Init ==
    /\ \E S \in Selections :
          LET items == ItemsOf(S)
          IN  /\ allGroups = InputGroups(items)
              /\ yearSettings = InputYearSettings(items)
              /\ taxRegime = InputRegime(items)
              /\ loanSummaries = InputLoanSummaries(items)
              /\ gprSettings = InputGprSettings(items)
              /\ wcSettings = InputWCSettings(items)
              /\ projectCostsData = InputProjectCosts(items)
              /\ existingWCLoans = InputExistingWCLoans(items)
    /\ EngineIdle
    /\ taxPbt = <<0, 0>>
    /\ taxRegimeArg = ""
    /\ taxOut = NoTaxCall
    /\ LoanIdle

Next ==
    \/ Invoke
    \/ OperatingStatement
    \/ BalanceSheet
    \/ BalanceSheetThrows
    \/ DeltaScan
    \/ CashFlow
    \/ KeyRatios

Spec == Init /\ [][Next]_vars

\* a second invocation on the same inputs, by the same caller
Reinvoke ==
    /\ pc = "returned"
    /\ calls = 1
    /\ results' = NewResults
    /\ loanDataByYear' = LoanDataByYear
    /\ sortedYearSettings' = SortedYearSettings
    /\ prevYearResults' = 0
    /\ yearIndex' = 0
    /\ loc' = NoLocals
    /\ operatingDeltas' = <<>>
    /\ investingDeltas' = <<>>
    /\ financingDeltas' = <<>>
    /\ calls' = calls + 1
    /\ pc' = IF Len(yearSettings) = 0 THEN "returned" ELSE "pnl"
    /\ UNCHANGED <<inputs, firstReturn, serviceVars>>

NextTwice == Next \/ Reinvoke

SpecTwice == Init /\ [][NextTwice]_vars

(***************************************************************************)
(* Recalculation after an edit: the caller changes the per-year values of  *)
(* the hidden rows and invokes calculateAll again; firstReturn keeps what  *)
(* the first invocation returned.                                          *)
(***************************************************************************)
\* the values an edit writes into the cells of the hidden rows, in currency units
HiddenEdits == {0, 35}

HasHiddenRow ==
    \E g \in 1..Len(allGroups) : \E i \in 1..Len(allGroups[g].rows) :
        allGroups[g].rows[i].is_hidden

EditHiddenRow(row, v) ==
    IF row.is_hidden
    THEN [row EXCEPT !.data = [d \in 1..Len(row.data) |-> [row.data[d] EXCEPT !.value = Rs(v)]]]
    ELSE row
EditHiddenRows(groups, v) ==
    [g \in 1..Len(groups) |->
        [groups[g] EXCEPT !.rows = [i \in 1..Len(groups[g].rows) |->
                                      EditHiddenRow(groups[g].rows[i], v)]]]

ReinvokeHiddenEdited ==
    /\ pc = "returned"
    /\ calls = 1
    /\ HasHiddenRow
    /\ \E v \in HiddenEdits :
          /\ allGroups' = EditHiddenRows(allGroups, v)
          /\ allGroups' # allGroups
    /\ results' = NewResults
    /\ loanDataByYear' = LoanDataByYear
    /\ sortedYearSettings' = SortedYearSettings
    /\ prevYearResults' = 0
    /\ yearIndex' = 0
    /\ loc' = NoLocals
    /\ operatingDeltas' = <<>>
    /\ investingDeltas' = <<>>
    /\ financingDeltas' = <<>>
    /\ calls' = calls + 1
    /\ pc' = IF Len(yearSettings) = 0 THEN "returned" ELSE "pnl"
    /\ UNCHANGED <<yearSettings, taxRegime, loanSummaries, gprSettings, wcSettings,
                   projectCostsData, existingWCLoans, firstReturn, serviceVars>>

NextHidden == Next \/ ReinvokeHiddenEdited

SpecHidden == Init /\ [][NextHidden]_vars

(***************************************************************************)
(* Recalculation on the same YearSettings supplied in another order.       *)
(***************************************************************************)
ReinvokeReordered ==
    /\ pc = "returned"
    /\ calls = 1
    /\ \E p \in Permutations(1..Len(yearSettings)) :
          /\ yearSettings' = [i \in 1..Len(yearSettings) |-> yearSettings[p[i]]]
          /\ yearSettings' # yearSettings
    /\ results' = NewResults
    /\ loanDataByYear' = LoanDataByYear
    /\ sortedYearSettings' = SortByYear(yearSettings', <<>>)
    /\ prevYearResults' = 0
    /\ yearIndex' = 0
    /\ loc' = NoLocals
    /\ operatingDeltas' = <<>>
    /\ investingDeltas' = <<>>
    /\ financingDeltas' = <<>>
    /\ calls' = calls + 1
    /\ pc' = "pnl"
    /\ UNCHANGED <<allGroups, taxRegime, loanSummaries, gprSettings, wcSettings,
                   projectCostsData, existingWCLoans, firstReturn, serviceVars>>

NextReordered == Next \/ ReinvokeReordered

SpecReordered == Init /\ [][NextReordered]_vars

(***************************************************************************)
(* calculateTax exercised on its own, on two profits and one regime.       *)
(***************************************************************************)
Regimes == {"domestic_22", "llp", "proprietorship", "legacy_flat"}

\* profits around every multiple of 100000 up to MaxPbtK * 100000, and
\* around the surcharge threshold
PbtSamples ==
    {k * 100000 + d : k \in 0..MaxPbtK, d \in -1..1}
    \cup {SurchargeThreshold + d : d \in -1..1}
    \cup {-250000}

TaxInit ==
    /\ allGroups = <<>>
    /\ yearSettings = <<>>
    /\ taxRegime = "domestic_22"
    /\ loanSummaries = [isArray |-> TRUE, items |-> <<>>]
    /\ gprSettings = [enabled |-> FALSE, firstYearIncrement |-> 0, subsequentIncrement |-> 0]
    /\ wcSettings = DefaultWCSettings
    /\ projectCostsData = <<>>
    /\ existingWCLoans = <<>>
    /\ EngineIdle
    /\ taxPbt \in PbtSamples \X PbtSamples
    /\ taxRegimeArg \in Regimes
    /\ taxOut = NoTaxCall
    /\ LoanIdle

CalculateTaxCall ==
    /\ taxOut = NoTaxCall
    /\ taxOut' = <<CalculateTax(FxInt(taxPbt[1]), taxRegimeArg),
                   CalculateTax(FxInt(taxPbt[2]), taxRegimeArg)>>
    /\ UNCHANGED <<inputs, results, loanDataByYear, sortedYearSettings, prevYearResults,
                   yearIndex, pc, loc, deltas, calls, firstReturn, taxPbt, taxRegimeArg,
                   loanVars>>

TaxNext == CalculateTaxCall

TaxSpec == TaxInit /\ [][TaxNext]_vars

(***************************************************************************)
(* generateLoanSchedule exercised on its own.                              *)
(***************************************************************************)
LoanInit ==
    /\ allGroups = <<>>
    /\ yearSettings = <<>>
    /\ taxRegime = "domestic_22"
    /\ loanSummaries = [isArray |-> TRUE, items |-> <<>>]
    /\ gprSettings = [enabled |-> FALSE, firstYearIncrement |-> 0, subsequentIncrement |-> 0]
    /\ wcSettings = DefaultWCSettings
    /\ projectCostsData = <<>>
    /\ existingWCLoans = <<>>
    /\ EngineIdle
    /\ taxPbt = <<0, 0>>
    /\ taxRegimeArg = ""
    /\ taxOut = NoTaxCall
    /\ loanConfig \in LoanConfigs
    /\ loanSchedule = NoSchedule

GenerateLoanScheduleCall ==
    /\ ~loanSchedule.returned
    /\ loanSchedule' = [returned |-> TRUE, periods |-> GenerateLoanSchedule(loanConfig)]
    /\ UNCHANGED <<inputs, results, loanDataByYear, sortedYearSettings, prevYearResults,
                   yearIndex, pc, loc, deltas, calls, firstReturn, taxVars, loanConfig>>

LoanNext == GenerateLoanScheduleCall

LoanSpec == LoanInit /\ [][LoanNext]_vars

(***************************************************************************)
(* Properties of calculateTax, checked under TaxSpec.  Amounts are exact   *)
(* decimals with five places, which is enough for every product the        *)
(* function forms on a whole-rupee profit.                                 *)
(***************************************************************************)
TaxCalled == taxOut # NoTaxCall

\* C8: calculateTax(p, regime) returns tax = surcharge = cess = total = 0 for
\* every profit p <= 0 and every regime value, recognised or not.
C8_ZeroForNonPositiveProfit ==
    TaxCalled =>
        \A i \in 1..2 :
            taxPbt[i] <= 0 =>
                /\ taxOut[i].tax = FxZero
                /\ taxOut[i].surcharge = FxZero
                /\ taxOut[i].cess = FxZero
                /\ taxOut[i].total = FxZero

\* a loss taxed under a recognised regime and a zero profit under an unknown one
C8_Witness ==
    /\ TaxCalled
    /\ taxPbt = <<-250000, 0>>
    /\ taxRegimeArg = "llp"
    /\ taxOut[1].total = FxZero

\* the progressive schedule in hundredths of a rupee, slab by slab
ProgressiveHundredths(p) ==
    IF p <= 700000 THEN 0
    ELSE IF p <= 1000000 THEN 2000000 + (p - 700000) * 10
    ELSE IF p <= 1200000 THEN 5000000 + (p - 1000000) * 15
    ELSE IF p <= 1500000 THEN 8000000 + (p - 1200000) * 20
    ELSE 14000000 + (p - 1500000) * 30

\* C9: under 'proprietorship' the tax is non-decreasing in profit, is 0 for
\* every profit <= 700000 (700000 included), follows the slabs 0/5/10/15/20/30%
\* above that, and carries no surcharge or cess (total = tax).
C9_ProgressiveRegime ==
    (TaxCalled /\ taxRegimeArg = "proprietorship") =>
        /\ taxPbt[1] <= taxPbt[2] => FxLe(taxOut[1].tax, taxOut[2].tax)
        /\ \A i \in 1..2 :
              /\ taxPbt[i] <= 700000 => taxOut[i].tax = FxZero
              /\ FxTimes(taxOut[i].tax, 100) = FxInt(ProgressiveHundredths(taxPbt[i]))
              /\ taxOut[i].surcharge = FxZero
              /\ taxOut[i].cess = FxZero
              /\ taxOut[i].total = taxOut[i].tax

\* the rebate limit itself next to a profit in the top slab
C9_Witness ==
    /\ TaxCalled
    /\ taxRegimeArg = "proprietorship"
    /\ taxPbt = <<700000, 1500001>>
    /\ taxOut[1].tax = FxZero
    /\ FxGt(taxOut[2].tax, FxInt(140000))

\* C10: under 'domestic_22', for every profit p > 0, tax = 22% of p,
\* surcharge = 10% of tax, cess = 4% of (tax + surcharge) and
\* total = tax + surcharge + cess; p = 1,000,000 gives 220,000 / 22,000 /
\* 9,680 / 251,680.
C10_CorporateFlatRate ==
    (TaxCalled /\ taxRegimeArg = "domestic_22") =>
        \A i \in 1..2 :
            /\ taxPbt[i] > 0 =>
                  /\ FxTimes(taxOut[i].tax, 100) = FxInt(taxPbt[i] * 22)
                  /\ FxTimes(taxOut[i].surcharge, 10) = taxOut[i].tax
                  /\ FxTimes(taxOut[i].cess, 25) = FxAdd(taxOut[i].tax, taxOut[i].surcharge)
                  /\ taxOut[i].total = FxAdd(FxAdd(taxOut[i].tax, taxOut[i].surcharge),
                                             taxOut[i].cess)
            /\ taxPbt[i] = 1000000 =>
                  /\ taxOut[i].tax = FxInt(220000)
                  /\ taxOut[i].surcharge = FxInt(22000)
                  /\ taxOut[i].cess = FxInt(9680)
                  /\ taxOut[i].total = FxInt(251680)

\* the worked example of the corporate regime
C10_Witness ==
    /\ TaxCalled
    /\ taxRegimeArg = "domestic_22"
    /\ taxPbt[1] = 1000000
    /\ taxOut[1].total = FxInt(251680)

\* C11: under 'llp', for every profit p > 0, tax = 30% of p; surcharge = 12% of
\* tax exactly when p > 10,000,000 and 0 otherwise (none at 10,000,000, some at
\* 10,000,001, where tax = 3,000,000.3); cess = 4% of (tax + surcharge).
C11_PartnershipRegime ==
    (TaxCalled /\ taxRegimeArg = "llp") =>
        \A i \in 1..2 :
            /\ taxPbt[i] > 0 =>
                  /\ FxTimes(taxOut[i].tax, 10) = FxInt(taxPbt[i] * 3)
                  /\ IF taxPbt[i] > 10000000
                     THEN FxTimes(taxOut[i].surcharge, 25) = FxTimes(taxOut[i].tax, 3)
                     ELSE taxOut[i].surcharge = FxZero
                  /\ FxTimes(taxOut[i].cess, 25) = FxAdd(taxOut[i].tax, taxOut[i].surcharge)
                  /\ taxOut[i].total = FxAdd(FxAdd(taxOut[i].tax, taxOut[i].surcharge),
                                             taxOut[i].cess)
            /\ taxPbt[i] = 10000001 =>
                  /\ taxOut[i].tax = [w |-> 3000000, f |-> 3 * (Den \div 10)]
                  /\ FxGt(taxOut[i].surcharge, FxInt(360000))

\* the two profits on either side of the surcharge threshold
C11_Witness ==
    /\ TaxCalled
    /\ taxRegimeArg = "llp"
    /\ taxPbt = <<10000000, 10000001>>
    /\ taxOut[1].tax = FxInt(3000000)
    /\ taxOut[1].surcharge = FxZero
    /\ taxOut[2].surcharge # FxZero

RecognisedRegimes == {"domestic_22", "llp", "proprietorship"}

\* C12: when the regime given is not one of the recognised values, calculateTax
\* returns (it does not fail) and the breakdown it returns is the one of the
\* default regime, the corporate flat rate 'domestic_22'.
C12_InvalidRegimeFallback ==
    (TaxCalled /\ taxRegimeArg \notin RecognisedRegimes) =>
        \A i \in 1..2 :
            taxOut[i] = CalculateTax(FxInt(taxPbt[i]), "domestic_22")

(***************************************************************************)
(* Properties of calculateAll, checked under Spec (one invocation) and     *)
(* SpecTwice (two invocations on the same inputs).                         *)
(***************************************************************************)
\* the ids of the years whose block has run to its end
DoneYears == {yId \in DOMAIN results : Has(results[yId], "_ghostRows")}

\* the id of the year processed just before the year with this id (0: none)
PrevYearOf(yId) ==
    IF \E i \in 2..Len(sortedYearSettings) : sortedYearSettings[i].id = yId
    THEN sortedYearSettings[(CHOOSE i \in 2..Len(sortedYearSettings) :
                                sortedYearSettings[i].id = yId) - 1].id
    ELSE 0

\* the years after the first whose block has run to its end
LaterDoneYears == {yId \in DoneYears : PrevYearOf(yId) # 0}

\* C1: for every year processed, if the year's ghost-row list is empty then
\* Total Assets equals Total Liabilities and Net Worth: |Balance Sheet Check|
\* is within the 0.01 tolerance.
C1_ReconciliationLaw ==
    \A yId \in DoneYears :
        results[yId]["_ghostRows"] = <<>> =>
            Abs(results[yId]["Balance Sheet Check"]) <= Tolerance

\* the COGS group has a visible input row classified as opening raw-material stock
HasOpeningStockRow ==
    \E g \in 1..Len(allGroups) :
        /\ g = FirstIn({h \in 1..Len(allGroups) :
                           \/ Includes(ToLowerCase(allGroups[h].name), "cost of goods sold")
                           \/ Includes(ToLowerCase(allGroups[h].name), "cogs")})
        /\ \E i \in 1..Len(allGroups[g].rows) :
              /\ IsInputRow(allGroups[g].rows[i])
              /\ CogsCategory(allGroups[g].rows[i].name) = "openStockRM"

\* C2: with Target-GPR disabled, in every year after the first the opening
\* raw-material stock that enters Raw Material Consumed equals the previous
\* year's "Closing Stock (Raw Materials)", zero included, whatever the user
\* entered in the opening-stock row.
C2_StockCarryForward ==
    (/\ pc \in {"bs", "scan", "cfs", "ratios"}
     /\ yearIndex > 0
     /\ ~gprSettings.enabled
     /\ HasOpeningStockRow) =>
        /\ loc.openStockRM = Or0(PrevMap(results), "Closing Stock (Raw Materials)")
        /\ results[Year.id]["Opening Stock (Raw Materials)"]
               = Or0(PrevMap(results), "Closing Stock (Raw Materials)")

\* C3: for every year after the first, the stored values satisfy
\* Gross block(N) = Net block(N-1) + Asset Additions(N) and
\* Net block(N) = Gross block(N) - Depreciation(N), for any fixed-asset rows.
C3_FixedAssetCarryForward ==
    \A yId \in LaterDoneYears :
        /\ results[yId]["Gross block"]
               = results[PrevYearOf(yId)]["Net block"] + results[yId]["Asset Additions"]
        /\ results[yId]["Net block"]
               = results[yId]["Gross block"] - results[yId]["Depreciation"]

\* the cash the user entered for a year (or 0)
InputCash(yId) ==
    OrElse(RowLookup(yId, "Cash & Bank Balance"),
           OrElse(RowLookup(yId, "Cash in Hand"), RowLookup(yId, "Balance with Banks")))

\* C4: for every year after the first, "Add: Opening Cash Balance" equals the
\* previous year's "Closing Cash Balance (as per CFS)"; in every year closing
\* cash = opening cash + net cash flow, the first year's opening cash being
\* the user's input cash or 0.
C4_CashCarryForward ==
    \A yId \in DoneYears :
        /\ results[yId]["Closing Cash Balance (as per CFS)"]
               = results[yId]["Add: Opening Cash Balance"]
                 + results[yId]["Net Cash Flow During the Year"]
        /\ IF PrevYearOf(yId) # 0
           THEN results[yId]["Add: Opening Cash Balance"]
                    = results[PrevYearOf(yId)]["Closing Cash Balance (as per CFS)"]
           ELSE results[yId]["Add: Opening Cash Balance"] = InputCash(yId)

\* a second year closed on cash carried from the first, the user's own cash
\* row for that year left aside
C4_Witness ==
    /\ pc = "returned"
    /\ Len(sortedYearSettings) >= 2
    /\ \E yId \in LaterDoneYears :
          /\ results[yId]["Add: Opening Cash Balance"] # 0
          /\ results[yId]["Add: Opening Cash Balance"] # InputCash(yId)
          /\ results[yId]["Net Cash Flow During the Year"] # 0

\* the rows of the groups of one page type
RowCount(pageTypes) ==
    SeqSum([g \in 1..Len(allGroups) |->
               IF allGroups[g].page_type \in pageTypes THEN Len(allGroups[g].rows) ELSE 0])

\* one revenue row, one cost row, one fixed asset (in the asset register),
\* no other rows, no loans
Scenario5 ==
    /\ Len(yearSettings) >= 2
    /\ Len(allGroups) = Len(TemplateGroups)
    /\ \A g \in 1..Len(allGroups) :
          allGroups[g].system_tag \in {"revenue", "cogs"} => Len(allGroups[g].rows) = 1
    /\ RowCount({"operating"}) = 2
    /\ RowCount({"asset", "liability"}) = 0
    /\ Len(projectCostsData) = 1
    /\ loanSummaries.items = <<>>
    /\ existingWCLoans = <<>>

\* C5: in scenario 5 the year-1 closing cash of the cash flow statement equals
\* the Cash & Bank value injected into the year-1 balance sheet, and
\* Total Assets(year 1) equals Total Liabilities(year 1).
C5_TwoYearTieOut ==
    (Scenario5 /\ Len(sortedYearSettings) >= 2
     /\ sortedYearSettings[2].id \in DoneYears) =>
        /\ results[sortedYearSettings[2].id]["Closing Cash Balance (as per CFS)"]
               = results[sortedYearSettings[2].id]["Cash & Bank Balance"]
        /\ results[sortedYearSettings[2].id]["Total Assets"]
               = results[sortedYearSettings[2].id]["Total Liabilities"]

C7_NeverFails ==
    /\ pc # "threw"
    /\ pc = "returned" =>
          \A i \in 1..Len(yearSettings) :
              /\ yearSettings[i].id \in DOMAIN results
              /\ Has(results[yearSettings[i].id], "Total Assets")
              /\ Has(results[yearSettings[i].id], "Total Liabilities")
              /\ Has(results[yearSettings[i].id], "Balance Sheet Check")

\* the depreciation of the purchase year of an asset: amount x rate, the rate
\* halved for a second-half purchase
FirstYearDepreciation(asset) ==
    IF asset.is_second_half_purchase
    THEN (asset.amount * asset.depreciation_rate) \div 200
    ELSE (asset.amount * asset.depreciation_rate) \div 100

\* the new asset-register entries dated to the first year
YearZeroAssets ==
    SelectSeq(projectCostsData,
              LAMBDA a : ~a.is_existing_asset /\ a.purchase_year = sortedYearSettings[1].id)

\* no loans, no existing assets, and the rows saved by the asset register as the
\* only Gross block and Depreciation inputs
Scenario4 ==
    /\ Len(allGroups) > 0
    /\ LoanDataByYear = EmptyMap
    /\ Len(projectCostsData) > 0
    /\ \A i \in 1..Len(projectCostsData) : ~projectCostsData[i].is_existing_asset
    /\ \E years \in {[i \in 1..Len(yearSettings) |-> yearSettings[i].id]} :
          \A g \in 1..Len(allGroups) :
              \A i \in 1..Len(allGroups[g].rows) :
                  \E row \in {allGroups[g].rows[i]} :
                      /\ row.name = "Gross block" =>
                             row.data = SavedCells([k \in 1..Len(years) |->
                                                       SavedGrossBlock(projectCostsData, years, k)],
                                                   years)
                      /\ row.name = "Depreciation" =>
                             row.data = SavedCells([k \in 1..Len(years) |->
                                                       AnnualDep(projectCostsData, years, k)], years)
    /\ \E g \in 1..Len(allGroups) : \E i \in 1..Len(allGroups[g].rows) :
          allGroups[g].rows[i].name = "Gross block"

\* C13: in scenario 4 the Gross Block of the first year is the sum of the
\* amounts of the new assets dated to that year, and its Net Block is that
\* Gross Block minus the depreciation of the year, the sum over those assets of
\* amount x rate with the rate halved for second-half purchases.
C13_YearZeroCapex ==
    (Scenario4 /\ pc = "returned") =>
        \E y0 \in {sortedYearSettings[1].id} :
            /\ results[y0]["Gross block"]
                   = SeqSum([i \in 1..Len(YearZeroAssets) |-> YearZeroAssets[i].amount])
            /\ results[y0]["Net block"]
                   = results[y0]["Gross block"]
                     - SeqSum([i \in 1..Len(YearZeroAssets) |->
                                  FirstYearDepreciation(YearZeroAssets[i])])

\* C14: two inputs that differ only in the per-year values of hidden rows give
\* identical result maps for every year: the invocation after an edit of the
\* hidden rows returns what the first invocation returned.
C14_HiddenRowsExcluded ==
    (pc = "returned" /\ calls = 2) => results = firstReturn

\* the row at position i of group g is the one getVal(yId, key) reads
IsGetValRow(g, i, key) ==
    /\ RowMatchesKey(allGroups[g].rows[i].name, ToLowerCase(key))
    /\ \A h \in 1..g : \A j \in 1..Len(allGroups[h].rows) :
           (h < g \/ j < i) => ~RowMatchesKey(allGroups[h].rows[j].name, ToLowerCase(key))

\* the group sumGroup(yId, part, ...) adds up is group g, and it counts the row
InSumGroup(g, i, part, excludeNames) ==
    /\ FindGroupByPart(part) = g
    /\ SumGroupCounts(allGroups[g].rows[i], excludeNames)

\* the components of Total Assets into which the engine reads the row's value
\* in the year with index k (lines 752, 816, 855-856, 1468-1470, 1500-1506)
AssetComponentsOf(g, i, k) ==
    (IF k = 0 /\ \E key \in {"Cash & Bank Balance", "Cash in Hand", "Balance with Banks"} :
                    IsGetValRow(g, i, key)
     THEN {"cash"} ELSE {})
    \cup (IF InSumGroup(g, i, "Current assets", {"Cash", "Bank"})
          THEN {"nonCashCurrentAssets"} ELSE {})
    \cup (IF \/ k = 0 /\ IsGetValRow(g, i, "Gross block")
             \/ IsGetValRow(g, i, "Capital WIP")
             \/ IsGetValRow(g, i, "Intangible Assets")
          THEN {"fixedAssets"} ELSE {})
    \cup (IF InSumGroup(g, i, "Non-Current", {}) THEN {"nonCurrentAssets"} ELSE {})

\* the components of Total Liabilities into which the engine reads the row's
\* value (lines 963-976, 930-955, 1005-1017)
LiabilityComponentsOf(g, i, k) ==
    (IF WideSumCounts(allGroups[g], allGroups[g].rows[i], "liability", LiabilityExcludedTags,
                      LiabilityExcludedRows)
     THEN {"allLiabilityRowsSum"} ELSE {})
    \cup (IF taxRegime \in {"llp", "proprietorship"}
          THEN IF \/ k = 0 /\ IsGetValRow(g, i, "Capital")
                  \/ IsGetValRow(g, i, "Drawings")
                  \/ InSumGroup(g, i, "Net Worth", NetWorthOtherHeadsExcludes)
               THEN {"netWorth"} ELSE {}
          ELSE IF \/ k = 0 /\ IsGetValRow(g, i, "General reserve")
                  \/ InSumGroup(g, i, "Shareholders", ShareCapitalExcludes)
                  \/ InSumGroup(g, i, "Share capital", ShareCapitalExcludes)
                  \/ InSumGroup(g, i, "Net Worth", ShareCapitalExcludes)
               THEN {"netWorth"} ELSE {})

\* C15: in every year, each input row's value goes into at most one component
\* of Total Assets (cash, non-cash current assets, fixed assets, non-current
\* assets) and into at most one component of Total Liabilities (wide liability
\* sum, Net Worth), whatever the order and the names of the groups.
C15_NoDoubleCounting ==
    pc = "returned" =>
        \A k \in 0..(Len(sortedYearSettings) - 1) :
            \A g \in 1..Len(allGroups) : \A i \in 1..Len(allGroups[g].rows) :
                /\ Cardinality(AssetComponentsOf(g, i, k)) <= 1
                /\ Cardinality(LiabilityComponentsOf(g, i, k)) <= 1

\* C16: the years are processed in ascending order whatever the order of the
\* YearSettings list, so a permutation of the same list (distinct 4-digit start
\* years) gives the same per-year result maps, asset additions included.
C16_UnsortedInputTolerated ==
    /\ pc # "idle" =>
           \A i \in 1..(Len(sortedYearSettings) - 1) :
               GetYearNum(sortedYearSettings[i].year) < GetYearNum(sortedYearSettings[i + 1].year)
    /\ (pc = "returned" /\ calls = 2) => results = firstReturn

\* keys the engine looks up, and one no row has
LookupKeys ==
    {"Depreciation", "Capital", "Drawings", "Gross block", "General reserve",
     "Cash & Bank Balance", "Advance Tax", "Old Deposits", "Total Revenue", "Goodwill"}

\* the rows whose lower-cased, trimmed name equals the lower-cased, trimmed key,
\* with the alias of 'Capital', as positions in the order of the nested loops
TrimmedMatches(key) ==
    {i \in 1..Len(AllRows) :
        \E rowName \in {Trim(ToLowerCase(AllRows[i].name))} :
            \/ rowName = Trim(ToLowerCase(key))
            \/ /\ Trim(ToLowerCase(key)) = "capital"
               /\ rowName \in {"ordinary share capital", "share capital"}}

\* C17: getVal(yearId, key) returns the value stored under key in the year's
\* result map when there is one, even if a row of that name holds another
\* value; otherwise the year's value of the first row whose lower-cased, trimmed
\* name equals the lower-cased, trimmed key ('Capital' also matching 'Ordinary
\* share capital' / 'Share capital'); and 0 when no row matches or the matching
\* row has no DataPoint for the year.
C17_LookupByKey ==
    \A yId \in DOMAIN results : \A key \in LookupKeys :
        GetVal(results, yId, key)
            = (IF Has(results[yId], key) THEN results[yId][key]
               ELSE IF TrimmedMatches(key) = {} THEN 0
               ELSE RowVal(AllRows[Min(TrimmedMatches(key))], yId))

\* the twelve ratios of the table "5. Key Ratios", each with its denominator
\* as the result map of the year and the loan data hold it
RatioDenominators(yId) ==
    Only({
      << <<"Debt Equity Ratio", Or0(m, "Net worth")>>,
         <<"Current ratio", Or0(m, "Total Current Liabilities")>>,
         <<"Quick ratio", Or0(m, "Total Current Liabilities")>>,
         <<"Fixed Assets Coverage Ratio", Or0(m, "Total Fixed Assets")>>,
         <<"Interest coverage ratio", Or0(m, "Total Interest")>>,
         <<"Debt Service Coverage Ratio (DSCR)",
           LoanField(yId, "principal") + LoanField(yId, "interest")>>,
         <<"Return on Capital Employed (ROCE)",
           Or0(m, "Net worth") + Or0(m, "Total Term Liabilities")>>,
         <<"Net profit margin", Or0(m, "Total Revenue")>>,
         <<"Return on Net worth", Or0(m, "Net worth")>>,
         <<"Inventory turnover ratio",
           IF yId = sortedYearSettings[1].id THEN Or0(m, "Closing Stock (Raw Materials)")
           ELSE Or0(m, "Opening Stock (Raw Materials)") + Or0(m, "Closing Stock (Raw Materials)")>>,
         <<"Fixed asset turnover ratio", Or0(m, "Total Fixed Assets")>>,
         <<"Asset turnover ratio", Or0(m, "Total Asset")>> >> :
      m \in {results[yId]}})

\* C18: for every year each of the twelve ratios is in the year's result map,
\* and is 0 whenever its denominator is 0.
C18_RatiosTotal ==
    pc = "returned" =>
        \A i \in 1..Len(sortedYearSettings) :
            \E yId \in {sortedYearSettings[i].id} :
                \A r \in 1..12 :
                    \E rd \in {RatioDenominators(yId)[r]} :
                        /\ Has(results[yId], rd[1])
                        /\ rd[2] = 0 => results[yId][rd[1]] = FracZero

\* the position of the year in the order of processing, from 0
YearIndexOf(yId) ==
    (CHOOSE i \in 1..Len(sortedYearSettings) : sortedYearSettings[i].id = yId) - 1

\* the target of a year after the first: the previous year's baseline or target
\* plus the first-year or the subsequent increment, in percent
GprTargetAfter(prevGpr, yId) ==
    Frac(prevGpr.n + (IF YearIndexOf(yId) = 1 THEN gprSettings.firstYearIncrement
                      ELSE gprSettings.subsequentIncrement) * prevGpr.d,
         prevGpr.d)

\* C19: in Target-GPR mode the first year records the achieved gross margin as
\* baseline, year 1's target is the baseline plus firstYearIncrement, each
\* later year's target is the previous target plus subsequentIncrement; in
\* every later year with positive revenue the closing raw-material stock is
\* solved so that the Gross Profit Ratio of the year is the target, and the
\* solved closing stock is the opening raw-material stock of the year after.
C19_TargetGpr ==
    gprSettings.enabled =>
        /\ \A yId \in DoneYears :
              results[yId]["Total Revenue"] > 0 =>
                  IF PrevYearOf(yId) = 0
                  THEN results[yId]["_actual_gpr"] = results[yId]["Gross Profit Ratio"]
                  ELSE /\ Has(results[PrevYearOf(yId)], "_actual_gpr") =>
                              results[yId]["_actual_gpr"]
                                  = GprTargetAfter(results[PrevYearOf(yId)]["_actual_gpr"], yId)
                       /\ results[yId]["Gross Profit Ratio"] = results[yId]["_actual_gpr"]
        /\ (/\ pc \in {"bs", "scan", "cfs", "ratios"}
            /\ yearIndex > 1
            /\ results[prevYearResults]["Total Revenue"] > 0) =>
               loc.openStockRM = results[prevYearResults]["Closing Stock (Raw Materials)"]

\* the ids of the years processed up to and including the year with this id
YearsUpTo(yId) ==
    {sortedYearSettings[i].id : i \in 1..(YearIndexOf(yId) + 1)}

\* Retained Profit summed over the years processed up to the year with this id
RECURSIVE RetainedProfitSum(_)
RetainedProfitSum(ids) ==
    IF ids = {} THEN 0
    ELSE Only({results[y]["Retained Profit"] + RetainedProfitSum(ids \ {y}) :
               y \in {CHOOSE z \in ids : TRUE}})

IsOtherEquityHead(row) ==
    /\ ~row.is_hidden
    /\ ~row.is_calculated
    /\ ~row.is_total_row
    /\ ToLowerCase(row.name) \notin
           {"capital", "drawings", "general reserve", "total net worth",
            "ordinary share capital", "share capital", "reserves & surplus"}

\* the other absolute-value equity sub-items of the year
OtherEquityHeads(yId) ==
    SeqSum([g \in 1..Len(allGroups) |->
        IF allGroups[g].system_tag = "net_worth"
        THEN SeqSum([i \in 1..Len(allGroups[g].rows) |->
                 IF IsOtherEquityHead(allGroups[g].rows[i])
                 THEN RowVal(allGroups[g].rows[i], yId) ELSE 0])
        ELSE 0])

IsEquityCapitalRow(row) ==
    \E n \in {ToLowerCase(row.name)} :
        IF IsLlpOrProprietorship
        THEN n \in {"capital", "ordinary share capital", "share capital"}
        ELSE n \in {"ordinary share capital", "share capital"}

\* the names of the rows reported by one of the two display-only lines of the
\* financing section: share or owner capital, and the other term liabilities
ReportedFinancingNames ==
    UNION {{allGroups[g].rows[i].name : i \in
               {j \in 1..Len(allGroups[g].rows) :
                   \/ IsEquityCapitalRow(allGroups[g].rows[j])
                   \/ allGroups[g].system_tag = "term_liabilities"}} :
           g \in 1..Len(allGroups)}

\* the financing deltas of the scan on rows that no line of the section reports
OtherFinancingDeltas(yId) ==
    Only({SeqSum([i \in 1..Len(ds) |->
                     IF ds[i].name \in ReportedFinancingNames THEN 0 ELSE ds[i].delta]) :
          ds \in {results[yId]["_financingDeltas"]}})

\* C22: in every year the change of the term-loan balance, of the working
\* capital borrowing, of the share or owner capital and of the other term
\* liabilities enters Net Cash from Financing Activities exactly once: the net
\* cash is the sum of the lines of the section, each change taken once, and
\* of the scan's deltas on rows that no line reports.
C22_FinancingExactlyOnce ==
    \A yId \in DoneYears :
        results[yId]["Net Cash from Financing Activities"]
            = results[yId]["Add: Proceeds from Term Loans"]
              + results[yId]["Less: Repayment of Term Loans"]
              + results[yId]["Add/Less: Change in WC Borrowings"]
              + results[yId]["Add/Less: Change in Share Capital"]
              + results[yId]["Add/Less: Change in Other Term Liabilities"]
              + results[yId]["Less: Drawings"]
              + results[yId]["Less: Dividend Paid"]
              + results[yId]["Less: Interest Paid"]
              + OtherFinancingDeltas(yId)

\* the names in the three cash-flow delta buckets of the year
CapturedNames(yId) ==
    Only({{all[i].name : i \in 1..Len(all)} :
          all \in {results[yId]["_operatingDeltas"] \o results[yId]["_investingDeltas"]
                   \o results[yId]["_financingDeltas"]}})

\* the change of the row's value from the year before (from 0 in the first year)
RowChange(row, yId) ==
    RowVal(row, yId) - (IF PrevYearOf(yId) = 0 THEN 0 ELSE RowVal(row, PrevYearOf(yId)))

\* the row is in the leak list or in the ghost-row list of the year, with its
\* name, its group and the given delta
ReportedAsLeak(yId, group, row, delta) ==
    \/ \E leaks \in {results[yId]["_leakedRows"]} :
           \E i \in 1..Len(leaks) :
               /\ leaks[i].row = row.name
               /\ leaks[i].group = group.name
               /\ leaks[i].delta = delta
    \/ \E ghosts \in {results[yId]["_ghostRows"]} :
           \E i \in 1..Len(ghosts) :
               /\ ghosts[i].rowName = row.name
               /\ ghosts[i].groupName = group.name
               /\ ghosts[i].delta = delta

\* C23: in every year, every balance-sheet row that is not hidden, calculated
\* or a total, whose value changed from the year before by more than 0.01 and
\* whose name is in none of the three cash-flow delta buckets, is in the leak
\* or ghost-row diagnostic of the year with its name, its group and its delta.
C23_GhostRowAudit ==
    \A yId \in DoneYears :
        \A g \in 1..Len(allGroups) :
            \A i \in 1..Len(allGroups[g].rows) :
                \E row \in {allGroups[g].rows[i]} :
                    (/\ allGroups[g].page_type # "operating"
                     /\ ~(row.is_hidden \/ row.is_calculated \/ row.is_total_row)
                     /\ Abs(RowChange(row, yId)) > Tolerance
                     /\ row.name \notin CapturedNames(yId))
                    => ReportedAsLeak(yId, allGroups[g], row, RowChange(row, yId))

\* the lower-cased names of the interest figures the loan summaries and the
\* working-capital configuration supply
SuppliedInterestNames ==
    {"interest on existing working capital", "interest on proposed working capital",
     "interest on new term loan", "interest on term loan"}

\* an interest line item the user entered: not a total, a ratio, or a figure
\* the loan summaries or the working-capital configuration supply
IsUserInterestRow(row) ==
    /\ IsInputRow(row)
    /\ \E name \in {ToLowerCase(row.name)} :
           /\ Includes(name, "interest")
           /\ ~Includes(name, "total interest")
           /\ ~Includes(name, "term loan interest")
           /\ ~Includes(name, "working capital interest")
           /\ ~Includes(name, "interest coverage")
           /\ name \notin SuppliedInterestNames

UserInterest(yId) ==
    Only({SeqSum([i \in 1..Len(rows) |->
                     IF IsUserInterestRow(rows[i]) THEN RowVal(rows[i], yId) ELSE 0]) :
          rows \in {AllRows}})

\* the manufacturing expenses of the year without the interest line items
ManufacturingExpensesProper(yId) ==
    SeqSum([g \in 1..Len(allGroups) |->
        IF allGroups[g].system_tag = "cogs"
        THEN SeqSum([i \in 1..Len(allGroups[g].rows) |->
                 Only({(IF /\ IsInputRow(row)
                           /\ CogsCategory(row.name) = "manufacturingExpenses"
                           /\ ~IsUserInterestRow(row)
                        THEN RowVal(row, yId) ELSE 0) : row \in {allGroups[g].rows[i]}})])
        ELSE 0])

\* C24: in every year each interest line item the user entered is deducted once
\* on the way to Profit Before Tax: Total Interest is the term-loan interest
\* plus the user's interest items plus the working-capital interest, the
\* manufacturing expenses hold no interest item, and Profit Before Tax is
\* EBITDA less depreciation less Total Interest.
C24_InterestOnce ==
    \A yId \in DoneYears :
        /\ results[yId]["Total Interest"]
               = results[yId]["Term Loan Interest"] + UserInterest(yId)
                 + results[yId]["Add: Working Capital Interest"]
        /\ results[yId]["Total Manufacturing Expenses"] = ManufacturingExpensesProper(yId)
        /\ results[yId]["Profit Before Tax"]
               = results[yId]["EBITDA"] - results[yId]["Depreciation"]
                 - results[yId]["Total Interest"]

\* the row is one the wide liability sum of Total Liabilities adds up
InWideLiabilitySum(g, i) ==
    WideSumCounts(allGroups[g], allGroups[g].rows[i], "liability", LiabilityExcludedTags,
                  LiabilityExcludedRows)

\* the delta scan assigns the row's change to a bucket
InDeltaScan(g, i) ==
    /\ ScanVisits(allGroups[g])
    /\ ~ScanSkips(allGroups[g].rows[i],
                  GetRowCFBucket(allGroups[g].rows[i], GroupCfBucket(allGroups[g])))

\* C25: in every year the liability rows the wide sum of Total Liabilities adds
\* up are exactly the liability rows whose change the delta scan assigns to a
\* bucket, and both take the same value of the row.  The rows of the equity
\* group and the tax provision row are left aside: they reach Total Liabilities
\* as Net worth and as the computed provision.
C25_WideSumMirrorsScan ==
    \A yId \in DoneYears :
        \A g \in 1..Len(allGroups) :
            \A i \in 1..Len(allGroups[g].rows) :
                (/\ allGroups[g].page_type = "liability"
                 /\ allGroups[g].system_tag # "net_worth"
                 /\ ~Includes(ToLowerCase(allGroups[g].rows[i].name), "provision for tax"))
                => /\ InWideLiabilitySum(g, i) <=> InDeltaScan(g, i)
                   /\ InDeltaScan(g, i) =>
                          results[yId][allGroups[g].rows[i].name]
                              = RowVal(allGroups[g].rows[i], yId)

\* the names the engine overwrites with the closing cash of the year
ClosingCashNames ==
    {"cash & bank balance", "cash in hand", "balance with banks", "total cash & bank"}

\* a cash or bank row: tagged cash_bank, left out of the non-cash current
\* assets as Cash or Bank, or overwritten with the closing cash
IsCashBankRow(group, row) ==
    /\ group.page_type = "asset"
    /\ IsScanRow(row)
    /\ \/ row.system_tag = "cash_bank"
       \/ /\ group.system_tag = "current_assets"
          /\ SumGroupExcludes(row.name, {"Cash", "Bank"})
          /\ ~SumGroupExcludes(row.name, {})
       \/ ToLowerCase(row.name) \in ClosingCashNames

\* C26: in every year the delta scan classifies every cash or bank row as skip,
\* and no such row takes part in the cash-flow deltas of the year.
C26_CashRowsSkipped ==
    \A yId \in DoneYears :
        \A g \in 1..Len(allGroups) :
            \A i \in 1..Len(allGroups[g].rows) :
                IsCashBankRow(allGroups[g], allGroups[g].rows[i]) =>
                    /\ GetRowCFBucket(allGroups[g].rows[i], GroupCfBucket(allGroups[g]))
                           = "skip"
                    /\ allGroups[g].rows[i].name \notin CapturedNames(yId)

\* the scan's investing deltas of the year hold no gross or net block row
NoBlockRowInInvestingDeltas(yId) ==
    \A ds \in {results[yId]["_investingDeltas"]} :
        \A i \in 1..Len(ds) :
            \E n \in {ToLowerCase(ds[i].name)} :
                ~Includes(n, "gross block") /\ ~Includes(n, "net block")

\* C27: the capex outflow of the investing section is the full Gross block in
\* the first year and the Asset Additions of the year in every later year, and
\* the change of a gross or net block row is not counted again through the
\* investing deltas of the scan.
C27_CapexReconstruction ==
    \A yId \in DoneYears :
        /\ IF PrevYearOf(yId) = 0
           THEN -results[yId]["Less: Purchase/Addition of Fixed Assets"]
                    = results[yId]["Gross block"]
           ELSE -results[yId]["Less: Purchase/Addition of Fixed Assets"]
                    = results[yId]["Asset Additions"]
        /\ NoBlockRowInInvestingDeltas(yId)

\* the computed figure of the balance sheet that stands for a row of this
\* lower-cased name: the tax of the year or a closing stock ("": none)
ComputedFigureKey(n) ==
    IF Includes(n, "provision for tax") THEN "Total Tax"
    ELSE IF Includes(n, "raw material") /\ Includes(n, "domestic")
    THEN "Closing Stock (Raw Materials)"
    ELSE IF Includes(n, "stock in process") \/ (Includes(n, "wip") /\ ~Includes(n, "capital"))
    THEN "Closing Stock (Work-in-Process)"
    ELSE IF Includes(n, "finished good") THEN "Closing Stock (Finished Goods)"
    ELSE ""

\* C28: in the delta scan of every year the value taken for a Provision for
\* Taxes row is the Total Tax of the year and the value taken for an inventory
\* row is the closing stock of the year from the operating statement, whatever
\* these computed figures are, zero included.
C28_ScanUsesComputedValues ==
    \A yId \in DoneYears :
        \A g \in 1..Len(allGroups) :
            \A i \in 1..Len(allGroups[g].rows) :
                \E key \in {ComputedFigureKey(ToLowerCase(allGroups[g].rows[i].name))} :
                    (InDeltaScan(g, i) /\ key # "") =>
                        results[yId][allGroups[g].rows[i].name] = results[yId][key]

\* the working-capital principal of the configuration: the existing limit, or
\* the limits of the itemised existing loans, and the proposed limit
WcPrincipal == WcLiabilityExisting + WcLiabilityProposed

\* C29: the working-capital configuration is the same in every year of a run,
\* so "Add/Less: Change in WC Borrowings" is the whole working-capital principal
\* in the first year and 0 in every later year, with a single existing limit
\* and with an itemised list of existing working-capital loans alike.
C29_WcBorrowingOnce ==
    \A yId \in DoneYears :
        results[yId]["Add/Less: Change in WC Borrowings"]
            = IF PrevYearOf(yId) = 0 THEN WcPrincipal ELSE 0

(***************************************************************************)
(* Claims about the loan schedule.                                         *)
(***************************************************************************)
\* the structure of the returned schedule under the EMI and BULLET methods
ScheduleChained(s) ==
    /\ Len(s) > 0 => s[1].opening = loanConfig.loanAmount
    /\ \A k \in 2..Len(s) : s[k].opening = s[k - 1].closing
MoratoriumHeld(s) ==
    \A k \in 1..Len(s) :
        k <= loanConfig.moratoriumMonths =>
            s[k].principal = 0 /\ s[k].payment = s[k].interest
BulletHeld(s) ==
    \A k \in 1..Len(s) :
        IF k < Len(s) THEN s[k].principal = 0
        ELSE s[k].principal = s[k].opening /\ s[k].closing = 0

\* C30: generateLoanSchedule returns exactly tenureMonths periods; the first
\* opening balance is the loan amount and each later opening balance is the
\* closing balance of the period before; under EMI no principal is repaid in
\* the first moratoriumMonths periods, where the payment is the interest;
\* under BULLET the principal is 0 in every period but the last, where the
\* whole outstanding balance is repaid and the closing balance is 0.
C30_LoanScheduleStructure ==
    loanSchedule.returned =>
        /\ Len(loanSchedule.periods) = loanConfig.tenureMonths
        /\ ScheduleChained(loanSchedule.periods)
        /\ loanConfig.repaymentMethod = "EMI" => MoratoriumHeld(loanSchedule.periods)
        /\ loanConfig.repaymentMethod = "BULLET" => BulletHeld(loanSchedule.periods)

====
